---------------------------- MODULE Spec2Model ----------------------------
(***************************************************************************)
(* Smart File Transfer System: the sender's delivery scheduler             *)
(* (sender/sender_client.py), the receiver session                         *)
(* (receiver/receiver_server.py), the wire between them and the persisted  *)
(* resume record transfer_state.json.                                      *)
(*                                                                         *)
(* Unit names are integers: 0 is "manifest.json", n >= 1 is                *)
(* "echunk_<n-1>.bin", and -1 is any other name (a receiver-side name that  *)
(* is neither the manifest nor a name of the manifest's chunk list).       *)
(* A payload is a sequence of buffer-sized pieces; each piece is a small   *)
(* integer standing for its bytes.  Payload bytes never contain a newline  *)
(* or "|" (Fernet tokens, and a manifest whose last line has no newline).  *)
(***************************************************************************)
EXTENDS Integers, Sequences, FiniteSets, TLC

\* ------------------------------------------------------------------ bounds
NumChunks == 2          \* chunk files echunk_0.bin .. in the sender's directory
PayloadPieces == 1      \* buffer-sized pieces of one unit's payload
MaxRetriesBound == 2    \* config.max_retries ranges over 0..MaxRetriesBound
MaxFaults == 1          \* receiver-side I/O exceptions and damaged acknowledgements
MaxSortChunks == 5      \* chunk files given to sort_files_by_priority
MaxFileLen == 3         \* bytes of the file given to the chunk producer
MaxChunkSize == 2       \* config.chunk_size ranges over 1..MaxChunkSize
MaxEdits == 2           \* changes made to the chunk directory before it is verified
MaxIndexChunks == 11    \* chunk files of one priority given to the sender

\* ------------------------------------------------------- program constants
MANIFEST_FILE == 0
DEFAULT_PRIORITY == 3
OtherName == 0 - 1
NoPriority == 0         \* a key that is absent from the manifest JSON

EChunk(i) == i + 1
IsEchunk(f) == f >= 1                 \* f.startswith("echunk_")
Chunks == {EChunk(i) : i \in 0..(NumChunks - 1)}

\* ------------------------------------------------------------ pure helpers
Range(s) == {s[i] : i \in 1..Len(s)}

RECURSIVE Digits(_)
Digits(n) == IF n < 10 THEN <<n>> ELSE Append(Digits(n \div 10), n % 10)

\* str.__lt__ on two digit strings that are both followed by ".bin"
\* ("." sorts before every digit, so a proper prefix sorts first)
RECURSIVE LexLess(_, _)
LexLess(a, b) ==
    IF a = <<>> THEN b /= <<>>
    ELSE IF b = <<>> THEN FALSE
    ELSE IF Head(a) /= Head(b) THEN Head(a) < Head(b)
    ELSE LexLess(Tail(a), Tail(b))

\* str.__lt__ on unit names: "echunk_..." < "manifest.json" < other names here
NameLess(a, b) ==
    IF IsEchunk(a) /\ IsEchunk(b) THEN LexLess(Digits(a - 1), Digits(b - 1))
    ELSE IF IsEchunk(a) THEN TRUE
    ELSE IF IsEchunk(b) THEN FALSE
    ELSE a = MANIFEST_FILE /\ b /= MANIFEST_FILE

\* sorted(iterable) on names
RECURSIVE SortedNames(_)
SortedNames(S) ==
    IF S = {} THEN <<>>
    ELSE LET m == CHOOSE x \in S : \A y \in S \ {x} : NameLess(x, y)
         IN <<m>> \o SortedNames(S \ {m})

\* hashlib.sha256(...).hexdigest(): an injective digest of the bytes
calculate_hash(bytes) == <<"sha256", bytes>>


\* ------------------------------------------------------------ the manifest
\* A manifest is the parsed JSON: priority (NoPriority when the key is
\* absent) and the chunk list, each entry with name, hash and priority.
NoManifest == [valid |-> FALSE, priority |-> NoPriority, chunks |-> <<>>]

\* the bytes of a unit as the producer stored them, a damaged variant of
\* them, and the bytes of manifest.json
GoodBytes(u) == [k \in 1..PayloadPieces |-> 10 * u + k]
BadBytes(u) == [k \in 1..PayloadPieces |-> 10 * u + k + 5]
ManifestBytes == GoodBytes(MANIFEST_FILE)

\* chunks_meta / manifest as split_compress_encrypt writes it for n chunks
ProducedManifest(n, priority) ==
    [valid |-> TRUE, priority |-> priority,
     chunks |-> [i \in 1..n |->
                   [name |-> EChunk(i - 1),
                    hash |-> calculate_hash(GoodBytes(EChunk(i - 1))),
                    priority |-> priority]]]

\* the bytes of a unit as a second producer run stores them (another source
\* file, or the same one: every Fernet token is new), and the manifest of
\* that run
RerunBytes(u) == [k \in 1..PayloadPieces |-> 10 * u + k + 7]

RerunManifest ==
    [valid |-> TRUE, priority |-> DEFAULT_PRIORITY,
     chunks |-> [i \in 1..NumChunks |->
                   [name |-> EChunk(i - 1),
                    hash |-> calculate_hash(RerunBytes(EChunk(i - 1))),
                    priority |-> DEFAULT_PRIORITY]]]

\* json.load of manifest.json: the bytes parse only when they are complete
ParseManifest(bytes) ==
    IF bytes = ManifestBytes THEN ProducedManifest(NumChunks, DEFAULT_PRIORITY)
    ELSE IF bytes = RerunBytes(MANIFEST_FILE) THEN RerunManifest
    ELSE NoManifest

\* ------------------------------------------------- sort_files_by_priority
\* manifest.get('priority', config.default_priority)
DefaultPriorityOf(manifest) ==
    IF manifest.priority = NoPriority THEN DEFAULT_PRIORITY ELSE manifest.priority

\* chunk_priority_map, built entry by entry (a later entry overwrites)
RECURSIVE ChunkPriorityMap(_, _, _)
ChunkPriorityMap(chunks, default_priority, acc) ==
    IF chunks = <<>> THEN acc
    ELSE LET info == Head(chunks)
             p == IF info.priority = NoPriority THEN default_priority
                  ELSE info.priority
         IN ChunkPriorityMap(Tail(chunks), default_priority,
                             [n \in DOMAIN acc \cup {info.name} |->
                                IF n = info.name THEN p ELSE acc[n]])

\* chunk_priority_map.get(f, default_priority)
PriorityKey(map, f, default_priority) ==
    IF f \in DOMAIN map THEN map[f] ELSE default_priority

\* an unstable variant: insertion before the elements of equal key
RECURSIVE InsertByKeyUnstable(_, _, _, _)
InsertByKeyUnstable(x, sorted, map, d) ==
    IF sorted = <<>> THEN <<x>>
    ELSE IF PriorityKey(map, Head(sorted), d) < PriorityKey(map, x, d)
         THEN <<Head(sorted)>> \o InsertByKeyUnstable(x, Tail(sorted), map, d)
         ELSE <<x>> \o sorted

\* sorted(seq, key=...): insertion after every element whose key is <=
RECURSIVE InsertByKey(_, _, _, _)
InsertByKey(x, sorted, map, d) ==
    IF sorted = <<>> THEN <<x>>
    ELSE IF PriorityKey(map, Head(sorted), d) <= PriorityKey(map, x, d)
         THEN <<Head(sorted)>> \o InsertByKey(x, Tail(sorted), map, d)
         ELSE <<x>> \o sorted

RECURSIVE SortedByKey(_, _, _, _)
SortedByKey(todo, acc, map, d) ==
    IF todo = <<>> THEN acc
    ELSE SortedByKey(Tail(todo), InsertByKey(Head(todo), acc, map, d), map, d)

\* a filter that lets no name through as the manifest
IsManifestNameNever(f) == FALSE

\* line 208: [f for f in files if f == MANIFEST_FILE]
IsManifestName(f) == f = MANIFEST_FILE

sort_files_by_priority(files, manifest, priority_on) ==
    IF ~manifest.valid \/ ~priority_on THEN files
    ELSE LET manifest_files == SelectSeq(files, IsManifestName)
             chunk_files == SelectSeq(files, IsEchunk)
             d == DefaultPriorityOf(manifest)
             map == ChunkPriorityMap(manifest.chunks, d, <<>>)
         IN manifest_files \o SortedByKey(chunk_files, <<>>, map, d)

\* main(): files_to_send as built at lines 288-302 from the directory
BuildFilesToSend(dir, manifest, priority_on) ==
    LET chunk_files == SortedNames({f \in DOMAIN dir : IsEchunk(f)})
        listed == (IF MANIFEST_FILE \in DOMAIN dir THEN <<MANIFEST_FILE>> ELSE <<>>)
                  \o chunk_files
    IN IF priority_on /\ manifest.valid
       THEN sort_files_by_priority(listed, manifest, priority_on)
       ELSE listed

\* ----------------------------------------------------- transfer_state.json
\* The file is absent, holds a complete JSON record (the sorted list of
\* names), or is what open(..., "w") leaves before json.dump has finished.
NoStateFile == [kind |-> "absent", completed_files |-> <<>>]
PartialStateFile == [kind |-> "partial", completed_files |-> <<>>]
StateFileOf(names) == [kind |-> "json", completed_files |-> SortedNames(names)]

\* load_state(): set(state.get("completed_files", []))
load_state(file) ==
    IF file.kind = "json" THEN Range(file.completed_files) ELSE {}


\* ------------------------------------------------------------------ state
VARIABLES
    \* configuration and the sender's working directory
    max_retries, enable_resume, priority_enabled, dir,
    \* sender process (main, send_file_with_retry, send_file_once)
    spc, sstatus, completed_files, manifest, files_to_send, idx, attempt,
    all_ok, sent_count, sent, stateFile, sconn,
    \* the TCP connection
    link, s2r, r2s,
    \* receiver process (start_server, recv_line)
    rpc, rstatus, expected_hashes, manifest_received, files_received,
    filename, remaining, linebuf, rdir, rconn, rserver,
    \* bookkeeping of what has happened (not program state)
    faults, announced, okRead, confirmed, doneCount, lastSaved, everSaved, loaded,
    replies, nonBad, failed,
    \* sort_files_by_priority applied on its own
    sort_dir, sort_manifest, sort_result, sort_done,
    \* the chunk producer (split_compress_encrypt) and the reassembler
    \* (verify_chunks, reassemble) run one after the other on one directory
    ppc, source_file, chunk_size, compression_enabled, encryption_enabled, key,
    read_pos, original_hasher, chunks_meta, chunk_store, pipe_manifest,
    verify_ok, verify_status, outfile, outfile_exists, final_check, edits

configVars == <<max_retries, enable_resume, priority_enabled, dir>>
senderVars == <<spc, sstatus, completed_files, manifest, files_to_send, idx,
                attempt, all_ok, sent_count, sent, sconn>>
receiverVars == <<rpc, rstatus, expected_hashes, manifest_received,
                  files_received, filename, remaining, linebuf, rdir, rconn,
                  rserver>>
historyVars == <<faults, announced, okRead, confirmed, doneCount, lastSaved,
                 everSaved, loaded, replies, nonBad, failed>>
sortVars == <<sort_dir, sort_manifest, sort_result, sort_done>>
pipeVars == <<ppc, source_file, chunk_size, compression_enabled,
              encryption_enabled, key, read_pos, original_hasher, chunks_meta,
              chunk_store, pipe_manifest, verify_ok, verify_status, outfile,
              outfile_exists, final_check, edits>>
vars == <<configVars, senderVars, stateFile, link, s2r, r2s, receiverVars,
          historyVars, sortVars, pipeVars>>

Units == {MANIFEST_FILE} \cup Chunks

HdrMsg(name, size) == [t |-> "hdr", name |-> name, size |-> size, b |-> 0]
DataMsg(b) == [t |-> "data", name |-> OtherName, size |-> 0, b |-> b]
DoneMsg == [t |-> "done", name |-> OtherName, size |-> 0, b |-> 0]

\* the sender's directory: empty, the chunks without the manifest, or all
\* files, of which at most one has been damaged since the producer ran (a
\* damaged manifest.json is no JSON)
Directories ==
    {<<>>, [u \in Chunks |-> GoodBytes(u)]} \cup
    {[u \in Units |-> IF u \in damaged THEN BadBytes(u) ELSE GoodBytes(u)] :
        damaged \in {{}} \cup {{u} : u \in Units}}

SenderIdle ==
    /\ spc = "idle" /\ sstatus = "idle" /\ completed_files = {}
    /\ manifest = NoManifest /\ files_to_send = <<>> /\ idx = 0 /\ attempt = 0
    /\ all_ok = TRUE /\ sent_count = 0 /\ sent = 0 /\ sconn = FALSE

ReceiverWaiting ==
    /\ rpc = "accept" /\ rstatus = "waiting" /\ expected_hashes = <<>>
    /\ manifest_received = FALSE /\ files_received = 0
    /\ filename = OtherName /\ remaining = 0 /\ linebuf = FALSE /\ rconn = FALSE
    /\ rserver = TRUE

SortIdle ==
    /\ sort_dir = <<>> /\ sort_manifest = NoManifest /\ sort_result = <<>>
    /\ sort_done = FALSE

\* the manifest the producer has not written yet
NoPipeManifest ==
    [written |-> FALSE, original_size |-> 0, original_hash |-> <<>>,
     chunk_size |-> 0, compression_enabled |-> FALSE,
     encryption_enabled |-> FALSE, chunks |-> <<>>]

PipeIdle ==
    /\ ppc = "idle" /\ source_file = <<>> /\ chunk_size = 0
    /\ compression_enabled = FALSE /\ encryption_enabled = FALSE /\ key = 0
    /\ read_pos = 0 /\ original_hasher = <<>> /\ chunks_meta = <<>>
    /\ chunk_store = <<>> /\ pipe_manifest = NoPipeManifest
    /\ verify_ok = FALSE /\ verify_status = <<>>
    /\ outfile = <<>> /\ outfile_exists = FALSE /\ final_check = "none"
    /\ edits = 0

Init ==
    /\ max_retries \in 0..MaxRetriesBound
    /\ enable_resume \in BOOLEAN
    /\ priority_enabled = TRUE
    /\ dir \in Directories
    /\ SenderIdle
    /\ stateFile = NoStateFile
    /\ link = "none" /\ s2r = <<>> /\ r2s = <<>>
    /\ ReceiverWaiting /\ rdir = <<>>
    /\ faults = 0 /\ announced = [u \in Units |-> 0]
    /\ okRead = {} /\ confirmed = {} /\ doneCount = 0 /\ lastSaved = {} /\ everSaved = {}
    /\ loaded = {} /\ replies = {} /\ nonBad = {} /\ failed = {}
    /\ SortIdle
    /\ PipeIdle

\* ----------------------------------------------------------------- sender
\* load_manifest(): the sender's own manifest.json, None when absent
load_manifest(d) ==
    IF MANIFEST_FILE \in DOMAIN d THEN ParseManifest(d[MANIFEST_FILE])
    ELSE NoManifest

\* main() lines 258-268 and 273: load the resume state and the manifest
SStart ==
    /\ spc = "idle"
    /\ completed_files' = IF enable_resume THEN load_state(stateFile) ELSE {}
    /\ loaded' = IF enable_resume THEN load_state(stateFile) ELSE {}
    /\ manifest' = load_manifest(dir)
    /\ sstatus' = "connecting"
    /\ spc' = "connecting"
    /\ UNCHANGED <<configVars, files_to_send, idx, attempt, all_ok, sent_count,
                   sent, sconn, stateFile, link, s2r, r2s, receiverVars,
                   faults, announced, okRead, confirmed, doneCount, lastSaved,
                   everSaved, replies, nonBad, failed, sortVars, pipeVars>>

\* main() lines 274-280: conn.connect succeeds
SConnect ==
    /\ spc = "connecting"
    /\ rpc = "accept"
    /\ link' = "open" /\ sconn' = TRUE
    /\ sstatus' = "connected"
    /\ spc' = "connected"
    /\ UNCHANGED <<configVars, completed_files, manifest, files_to_send, idx,
                   attempt, all_ok, sent_count, sent, stateFile, s2r, r2s,
                   receiverVars, historyVars, sortVars, pipeVars>>

\* a connect-failure handler that starts the resume record afresh
SConnectFailResetsState ==
    /\ spc = "connecting"
    /\ sstatus' = "error"
    /\ spc' = "returned"
    /\ stateFile' = NoStateFile
    /\ UNCHANGED <<configVars, completed_files, manifest, files_to_send, idx,
                   attempt, all_ok, sent_count, sent, sconn, link,
                   s2r, r2s, receiverVars, historyVars, sortVars, pipeVars>>

\* main() lines 281-286: conn.connect raises
SConnectFail ==
    /\ spc = "connecting"
    /\ sstatus' = "error"
    /\ spc' = "returned"
    /\ UNCHANGED <<configVars, completed_files, manifest, files_to_send, idx,
                   attempt, all_ok, sent_count, sent, sconn, stateFile, link,
                   s2r, r2s, receiverVars, historyVars, sortVars, pipeVars>>

\* main() lines 288-328: build the unit list; nothing to send is an error
SBuildList ==
    /\ spc = "connected"
    /\ LET files == BuildFilesToSend(dir, manifest, priority_enabled)
       IN /\ files_to_send' = files
          /\ IF files = <<>>
             THEN /\ sstatus' = "error" /\ sconn' = FALSE /\ spc' = "returned"
                  /\ UNCHANGED <<idx, all_ok, sent_count>>
             ELSE /\ sstatus' = "preparing" /\ spc' = "loop"
                  /\ all_ok' = TRUE /\ sent_count' = 0 /\ idx' = 1
                  /\ UNCHANGED sconn
    /\ UNCHANGED <<configVars, completed_files, manifest, attempt, sent,
                   stateFile, link, s2r, r2s, receiverVars, historyVars, sortVars, pipeVars>>


\* a scheduler that never skips
SkipUnitNever(f, done) == FALSE

\* line 331: if f in completed_files
SkipUnit(f, done) == f \in done

\* a retry loop that runs two attempts too many
AttemptAllowedTooMany(a, m) == a <= m + 2

\* line 149: for attempt in range(1, max_retries + 1)
AttemptAllowed(a, m) == a <= m

\* a sender that takes anything but BAD for success
AcceptedUnlessBad(resp) == resp /= "BAD"

\* line 156: if resp == "OK"
Accepted(resp) == resp = "OK"

\* a sender that reports success whatever happened
FinalStateAlwaysCompleted(ok) == "completed"

\* lines 391-409: the state published after DONE
FinalState(ok) == IF ok THEN "completed" ELSE "completed_with_errors"

\* conn.sendall(msg): the bytes are lost once the receiver has closed
Sendall(msg) == IF rpc = "closed" THEN s2r ELSE Append(s2r, msg)

\* bytes sent to a socket the receiver has closed are answered with a TCP
\* reset, after which conn.recv raises ConnectionResetError
LinkAfterSend == IF rpc = "closed" THEN "reset" ELSE link

CurrentFile == files_to_send[idx]

\* a send loop that does not count the units it skips
SLoopSkipUncounted ==
    /\ spc = "loop"
    /\ IF idx > Len(files_to_send)
       THEN /\ spc' = "send_done"
            /\ UNCHANGED <<sstatus, sent_count, idx, attempt>>
       ELSE IF SkipUnit(CurrentFile, completed_files)
       THEN /\ idx' = idx + 1
            /\ UNCHANGED <<spc, sstatus, sent_count, attempt>>
       ELSE /\ sstatus' = "sending" /\ attempt' = 1 /\ spc' = "attempt"
            /\ UNCHANGED <<sent_count, idx>>
    /\ UNCHANGED <<configVars, completed_files, manifest, files_to_send,
                   all_ok, sent, sconn, stateFile, link, s2r, r2s,
                   receiverVars, historyVars, sortVars, pipeVars>>

\* main() lines 330-350: top of the send loop
SLoop ==
    /\ spc = "loop"
    /\ IF idx > Len(files_to_send)
       THEN /\ spc' = "send_done"
            /\ UNCHANGED <<sstatus, sent_count, idx, attempt>>
       ELSE IF SkipUnit(CurrentFile, completed_files)
       THEN /\ sent_count' = sent_count + 1 /\ idx' = idx + 1
            /\ UNCHANGED <<spc, sstatus, attempt>>
       ELSE /\ sstatus' = "sending" /\ attempt' = 1 /\ spc' = "attempt"
            /\ UNCHANGED <<sent_count, idx>>
    /\ UNCHANGED <<configVars, completed_files, manifest, files_to_send,
                   all_ok, sent, sconn, stateFile, link, s2r, r2s,
                   receiverVars, historyVars, sortVars, pipeVars>>

\* send_file_with_retry lines 149-154 and 166-169, send_file_once lines
\* 108-109, main() lines 354-362: announce the unit, or give up on it
SAttempt ==
    /\ spc = "attempt"
    /\ IF AttemptAllowed(attempt, max_retries)
       THEN /\ s2r' = Sendall(HdrMsg(CurrentFile, Len(dir[CurrentFile])))
            /\ announced' = [announced EXCEPT ![CurrentFile] = @ + 1]
            /\ sent' = 0 /\ spc' = "payload"
            /\ UNCHANGED <<all_ok, sstatus, idx, failed>>
       ELSE /\ all_ok' = FALSE /\ sstatus' = "error"
            /\ idx' = idx + 1 /\ spc' = "loop"
            /\ failed' = failed \cup {CurrentFile}
            /\ UNCHANGED <<s2r, announced, sent>>
    /\ link' = IF AttemptAllowed(attempt, max_retries) THEN LinkAfterSend
               ELSE link
    /\ UNCHANGED <<configVars, completed_files, manifest, files_to_send,
                   attempt, sent_count, sconn, stateFile, r2s,
                   receiverVars, faults, okRead, confirmed, doneCount, lastSaved,
                   everSaved, loaded, replies, nonBad, sortVars, pipeVars>>

\* send_file_once lines 119-125: one buffer of the payload
SSendData ==
    /\ spc = "payload"
    /\ sent < Len(dir[CurrentFile])
    /\ s2r' = Sendall(DataMsg(dir[CurrentFile][sent + 1]))
    /\ sent' = sent + 1
    /\ spc' = IF sent + 1 = Len(dir[CurrentFile]) THEN "await" ELSE "payload"
    /\ link' = LinkAfterSend
    /\ UNCHANGED <<configVars, sstatus, completed_files, manifest,
                   files_to_send, idx, attempt, all_ok, sent_count, sconn,
                   stateFile, r2s, receiverVars, historyVars, sortVars, pipeVars>>

\* conn.recv(1024).decode().strip(): whatever has arrived, "" after the
\* receiver closed the connection
Response == IF Len(r2s) = 1 THEN r2s[1] ELSE IF r2s = <<>> THEN "" ELSE "garbled"

\* send_file_once lines 135-141, send_file_with_retry lines 156-164,
\* main() lines 363-368: read the acknowledgement and act on it
SRecvResp ==
    /\ spc = "await"
    /\ r2s /= <<>> \/ (rpc = "closed" /\ link /= "reset")
    /\ r2s' = <<>>
    /\ nonBad' = IF Response = "BAD" THEN nonBad ELSE nonBad \cup {CurrentFile}
    /\ IF Accepted(Response)
       THEN /\ sent_count' = sent_count + 1
            /\ okRead' = IF Response = "OK" THEN okRead \cup {CurrentFile} ELSE okRead
            /\ confirmed' = IF Response = "OK"
                            THEN confirmed \cup
                                   {<<CurrentFile, dir[CurrentFile]>>}
                            ELSE confirmed
            /\ IF enable_resume
               THEN /\ completed_files' = completed_files \cup {CurrentFile}
                    /\ spc' = "save_open"
                    /\ UNCHANGED <<sstatus, idx>>
               ELSE /\ sstatus' = "sending" /\ idx' = idx + 1 /\ spc' = "loop"
                    /\ UNCHANGED completed_files
            /\ UNCHANGED attempt
       ELSE /\ attempt' = attempt + 1 /\ spc' = "attempt"
            /\ UNCHANGED <<sent_count, okRead, confirmed, completed_files, sstatus, idx>>
    /\ UNCHANGED <<configVars, manifest, files_to_send, all_ok, sent, sconn,
                   stateFile, link, s2r, receiverVars, faults, announced,
                   doneCount, lastSaved, everSaved, loaded, replies, failed, sortVars, pipeVars>>

\* save_state line 99: open(state_file, "w") truncates the file
SSaveOpen ==
    /\ spc = "save_open"
    /\ stateFile' = PartialStateFile
    /\ spc' = "save_write"
    /\ UNCHANGED <<configVars, sstatus, completed_files, manifest,
                   files_to_send, idx, attempt, all_ok, sent_count, sent, sconn,
                   link, s2r, r2s, receiverVars, historyVars, sortVars, pipeVars>>

\* save_state line 100 and main() lines 373-377: json.dump completes
SSaveWrite ==
    /\ spc = "save_write"
    /\ stateFile' = StateFileOf(completed_files)
    /\ lastSaved' = completed_files
    /\ everSaved' = everSaved \cup completed_files
    /\ sstatus' = "sending" /\ idx' = idx + 1 /\ spc' = "loop"
    /\ UNCHANGED <<configVars, completed_files, manifest, files_to_send,
                   attempt, all_ok, sent_count, sent, sconn, link, s2r, r2s,
                   receiverVars, faults, announced, okRead, confirmed, doneCount,
                   loaded, replies, nonBad, failed, sortVars, pipeVars>>

\* main() lines 386-388: conn.sendall(b"DONE\n")
SSendDone ==
    /\ spc = "send_done"
    /\ s2r' = Sendall(DoneMsg)
    /\ doneCount' = doneCount + 1
    /\ spc' = "final"
    /\ link' = LinkAfterSend
    /\ UNCHANGED <<configVars, sstatus, completed_files, manifest,
                   files_to_send, idx, attempt, all_ok, sent_count, sent, sconn,
                   stateFile, r2s, receiverVars, faults, announced,
                   okRead, confirmed, lastSaved, everSaved, loaded, replies, nonBad, failed, sortVars, pipeVars>>

\* main() lines 390-415: publish the final state and close
SFinish ==
    /\ spc = "final"
    /\ sstatus' = FinalState(all_ok)
    /\ sconn' = FALSE
    /\ spc' = "returned"
    /\ UNCHANGED <<configVars, completed_files, manifest, files_to_send, idx,
                   attempt, all_ok, sent_count, sent, stateFile, link, s2r, r2s,
                   receiverVars, historyVars, sortVars, pipeVars>>

\* the sender process is killed or interrupted (SIGKILL, Ctrl+C): its
\* memory is gone, the OS closes its socket, and the status file and
\* transfer_state.json stay as they are
SCrash ==
    /\ spc \notin {"idle", "returned", "crashed", "raised"}
    /\ spc' = "crashed"
    /\ sconn' = FALSE
    /\ completed_files' = {} /\ manifest' = NoManifest /\ files_to_send' = <<>>
    /\ idx' = 0 /\ attempt' = 0 /\ all_ok' = TRUE /\ sent_count' = 0
    /\ sent' = 0
    /\ UNCHANGED <<configVars, sstatus, stateFile, link, s2r, r2s,
                   receiverVars, historyVars, sortVars, pipeVars>>

\* send_file_once lines 124 and 135: conn.sendall or conn.recv raises
\* (socket.timeout, BrokenPipeError, ConnectionResetError).  Neither
\* send_file_once, send_file_with_retry nor main() has a handler, so the
\* exception ends the process: no state is published, nothing is saved
SSocketError ==
    /\ spc \in {"payload", "await"}
    /\ spc' = "raised"
    /\ sconn' = FALSE
    /\ completed_files' = {} /\ manifest' = NoManifest /\ files_to_send' = <<>>
    /\ idx' = 0 /\ attempt' = 0 /\ all_ok' = TRUE /\ sent_count' = 0
    /\ sent' = 0
    /\ UNCHANGED <<configVars, sstatus, stateFile, link, s2r, r2s,
                   receiverVars, historyVars, sortVars, pipeVars>>

\* the acknowledgement bytes the sender reads are not the token written
AckDamaged ==
    /\ r2s /= <<>> /\ r2s /= <<"garbled">>
    /\ faults < MaxFaults
    /\ r2s' = <<"garbled">>
    /\ faults' = faults + 1
    /\ UNCHANGED <<configVars, senderVars, stateFile, link, s2r, receiverVars,
                   announced, okRead, confirmed, doneCount, lastSaved, everSaved,
                   loaded, replies, nonBad, failed, sortVars, pipeVars>>


\* --------------------------------------------------------------- receiver
\* load_expected_hashes(): {chunk_name: expected_hash} of the stored manifest
load_expected_hashes(d) ==
    LET m == IF MANIFEST_FILE \in DOMAIN d THEN ParseManifest(d[MANIFEST_FILE])
             ELSE NoManifest
    IN [n \in {m.chunks[i].name : i \in 1..Len(m.chunks)} |->
          LET i == CHOOSE j \in 1..Len(m.chunks) :
                      /\ m.chunks[j].name = n
                      /\ \A k \in (j + 1)..Len(m.chunks) : m.chunks[k].name /= n
          IN m.chunks[i].hash]

\* a receiver that accepts any hash
HashMatchesAlways(actual_hash, expected_hash) == TRUE

\* line 315: if actual_hash == expected_hash
HashMatches(actual_hash, expected_hash) == actual_hash = expected_hash

\* a receiver that refuses what it cannot check
ReplyForStrict(name, stored, got_manifest, expected) ==
    IF name = MANIFEST_FILE THEN "OK"
    ELSE IF got_manifest /\ name \in DOMAIN expected
         THEN IF HashMatches(calculate_hash(stored), expected[name])
              THEN "OK" ELSE "BAD"
         ELSE "BAD"

\* lines 296-335: the token written once the payload is stored
ReplyFor(name, stored, got_manifest, expected) ==
    IF name = MANIFEST_FILE THEN "OK"
    ELSE IF got_manifest /\ name \in DOMAIN expected
         THEN IF HashMatches(calculate_hash(stored), expected[name])
              THEN "OK" ELSE "BAD"
         ELSE "OK"

\* what the reply has to be judged against: is the unit a chunk of the
\* manifest file held in this session, do its stored bytes hash to the
\* descriptor's hash, (for the manifest unit) do its stored bytes parse, and
\* is the unit named in the hashes loaded from the manifest received in this
\* session
ReplyRecord(name, token, d, got_manifest, expected) ==
    LET m == IF got_manifest /\ MANIFEST_FILE \in DOMAIN d
             THEN ParseManifest(d[MANIFEST_FILE]) ELSE NoManifest
        known == \E i \in 1..Len(m.chunks) : m.chunks[i].name = name
    IN [name |-> name, token |-> token, known |-> known,
        listed |-> got_manifest /\ name \in DOMAIN expected,
        parses |-> name = MANIFEST_FILE /\ ParseManifest(d[name]).valid,
        stored_hash |-> calculate_hash(d[name]),
        match |-> known /\ \E i \in 1..Len(m.chunks) :
                     /\ m.chunks[i].name = name
                     /\ m.chunks[i].hash = calculate_hash(d[name])]

\* start_server lines 199-215: accept the connection
RAccept ==
    /\ rpc = "accept"
    /\ link = "open"
    /\ rconn' = TRUE /\ rstatus' = "connected"
    /\ expected_hashes' = <<>> /\ manifest_received' = FALSE
    /\ files_received' = 0
    /\ rpc' = "line"
    /\ UNCHANGED <<configVars, senderVars, stateFile, link, s2r, r2s, filename,
                   remaining, linebuf, rdir, rserver, historyVars, sortVars,
                   pipeVars>>

\* a receiver that takes DONE for a lost connection
RDoneAsError ==
    /\ rpc' = "closed" /\ rstatus' = "error"
    /\ rconn' = FALSE /\ rserver' = FALSE

\* start_server lines 225-238 and 347-358: DONE was read; completed is
\* published, the loop is left and both sockets are closed
RDone ==
    /\ rpc' = "closed" /\ rstatus' = "completed"
    /\ rconn' = FALSE /\ rserver' = FALSE

\* recv_line and start_server lines 217-258, on bytes that have arrived:
\* payload bytes read here pile up in the line until a newline comes, so the
\* next announcement is read with a damaged name and DONE is unparseable
RRecvLine ==
    /\ rpc = "line"
    /\ s2r /= <<>>
    /\ s2r' = Tail(s2r)
    /\ LET m == Head(s2r)
       IN IF m.t = "data"
          THEN /\ linebuf' = TRUE
               /\ UNCHANGED <<rpc, rstatus, filename, remaining, rdir, rconn,
                              rserver>>
          ELSE IF m.t = "done"
          THEN /\ linebuf' = FALSE
               /\ IF linebuf
                  THEN UNCHANGED <<rpc, rstatus, rconn, rserver>>
                  ELSE RDone
               /\ UNCHANGED <<filename, remaining, rdir>>
          ELSE LET name == IF linebuf THEN OtherName ELSE m.name
               IN /\ linebuf' = FALSE
                  /\ filename' = name /\ remaining' = m.size
                  /\ rstatus' = "receiving"
                  /\ rdir' = [n \in DOMAIN rdir \cup {name} |->
                                IF n = name THEN <<>> ELSE rdir[n]]
                  /\ rpc' = "payload"
                  /\ UNCHANGED <<rconn, rserver>>
    /\ UNCHANGED <<configVars, senderVars, stateFile, link, r2s,
                   expected_hashes, manifest_received, files_received,
                   historyVars, sortVars, pipeVars>>

\* recv_line lines 78-81 and start_server lines 219-223, 347-360: the sender
\* has closed; the loop is left without any state being published
RRecvEof ==
    /\ rpc = "line"
    /\ s2r = <<>> /\ ~sconn
    /\ rpc' = "closed" /\ rconn' = FALSE /\ rserver' = FALSE
    /\ UNCHANGED <<configVars, senderVars, stateFile, link, s2r, r2s, rstatus,
                   expected_hashes, manifest_received, files_received, filename,
                   remaining, linebuf, rdir, historyVars, sortVars, pipeVars>>

\* start_server lines 264-335: store one buffer; after the last one,
\* validate the unit and write the acknowledgement
RRecvData ==
    /\ rpc = "payload" /\ remaining > 0
    /\ s2r /= <<>> /\ Head(s2r).t = "data"
    /\ s2r' = Tail(s2r)
    /\ LET stored == Append(rdir[filename], Head(s2r).b)
           d == [rdir EXCEPT ![filename] = stored]
       IN /\ rdir' = d
          /\ remaining' = remaining - 1
          /\ IF remaining = 1
             THEN LET got == manifest_received \/ filename = MANIFEST_FILE
                      expected == IF filename = MANIFEST_FILE
                                  THEN load_expected_hashes(d)
                                  ELSE expected_hashes
                      token == ReplyFor(filename, stored, got, expected)
                  IN /\ files_received' = files_received + 1
                     /\ manifest_received' = got
                     /\ expected_hashes' = expected
                     /\ r2s' = Append(r2s, token)
                     /\ replies' = replies \cup
                                     {ReplyRecord(filename, token, d, got,
                                                 expected)}
                     /\ rpc' = "line"
             ELSE UNCHANGED <<files_received, manifest_received,
                              expected_hashes, r2s, replies, rpc>>
    /\ UNCHANGED <<configVars, senderVars, stateFile, link, rstatus, filename,
                   linebuf, rconn, rserver, faults, announced, okRead, confirmed, doneCount,
                   lastSaved, everSaved, loaded, nonBad, failed, sortVars, pipeVars>>

\* a receiver that answers the lost unit with BAD before it closes
RConnectionLostAnswered ==
    /\ rpc = "payload" /\ remaining > 0
    /\ s2r = <<>> /\ ~sconn
    /\ r2s' = Append(r2s, "BAD")
    /\ rstatus' = "error" /\ rconn' = FALSE /\ rserver' = FALSE
    /\ rpc' = "closed"
    /\ UNCHANGED <<configVars, senderVars, stateFile, link, s2r,
                   expected_hashes, manifest_received, files_received, filename,
                   remaining, linebuf, rdir, historyVars, sortVars, pipeVars>>

\* start_server lines 266-277: recv returns no bytes in the middle of a payload
RConnectionLost ==
    /\ rpc = "payload" /\ remaining > 0
    /\ s2r = <<>> /\ ~sconn
    /\ rstatus' = "error" /\ rconn' = FALSE /\ rserver' = FALSE
    /\ rpc' = "closed"
    /\ UNCHANGED <<configVars, senderVars, stateFile, link, s2r, r2s,
                   expected_hashes, manifest_received, files_received, filename,
                   remaining, linebuf, rdir, historyVars, sortVars, pipeVars>>

\* a receiver that goes on after an I/O error without a token
RPayloadExceptionSilent ==
    /\ rpc = "payload" /\ remaining > 0
    /\ faults < MaxFaults
    /\ faults' = faults + 1
    /\ rpc' = "line"
    /\ UNCHANGED <<configVars, senderVars, stateFile, link, s2r, r2s, rstatus,
                   expected_hashes, manifest_received, files_received, filename,
                   remaining, linebuf, rdir, rconn, rserver, announced, okRead,
                   confirmed, doneCount, lastSaved, everSaved, loaded, replies,
                   nonBad, failed, sortVars, pipeVars>>

\* start_server lines 291-294: a timeout or an I/O error while the payload
\* is being stored is answered with BAD and the loop goes on
RPayloadException ==
    /\ rpc = "payload" /\ remaining > 0
    /\ faults < MaxFaults
    /\ faults' = faults + 1
    /\ r2s' = Append(r2s, "BAD")
    /\ rpc' = "line"
    /\ UNCHANGED <<configVars, senderVars, stateFile, link, s2r, rstatus,
                   expected_hashes, manifest_received, files_received, filename,
                   remaining, linebuf, rdir, rconn, rserver, announced, okRead, confirmed,
                   doneCount, lastSaved, everSaved, loaded, replies, nonBad, failed, sortVars, pipeVars>>

\* a receiver whose interrupt handler leaves the listening socket open
RInterruptLeavesServer ==
    /\ rpc \in {"accept", "line", "payload"}
    /\ faults < MaxFaults
    /\ faults' = faults + 1
    /\ rstatus' = "stopped"
    /\ rconn' = FALSE /\ rserver' = TRUE /\ rpc' = "closed"
    /\ UNCHANGED <<configVars, senderVars, stateFile, link, s2r, r2s,
                   expected_hashes, manifest_received, files_received, filename,
                   remaining, linebuf, rdir, announced, okRead, confirmed, doneCount,
                   lastSaved, everSaved, loaded, replies, nonBad, failed,
                   sortVars, pipeVars>>

\* start_server lines 337-358: the operator presses Ctrl+C while the
\* receiver waits in accept or is in its loop; stopped is published and the
\* finally block closes the connection and the listening socket
RInterrupt ==
    /\ rpc \in {"accept", "line", "payload"}
    /\ faults < MaxFaults
    /\ faults' = faults + 1
    /\ rstatus' = "stopped"
    /\ rconn' = FALSE /\ rserver' = FALSE /\ rpc' = "closed"
    /\ UNCHANGED <<configVars, senderVars, stateFile, link, s2r, r2s,
                   expected_hashes, manifest_received, files_received, filename,
                   remaining, linebuf, rdir, announced, okRead, confirmed, doneCount,
                   lastSaved, everSaved, loaded, replies, nonBad, failed,
                   sortVars, pipeVars>>

\* ------------------------------------------------------------------- runs
\* the operator starts the receiver and the sender again.  rdir holds the
\* files the running receiver process has written: every file the receiver
\* reads (lines 135 and 106) it has just written itself (line 264), so files
\* left by an earlier process are never observed by it
NewRun ==
    /\ spc \in {"returned", "crashed", "raised"}
    /\ rpc \in {"closed", "accept"}
    /\ spc' = "idle" /\ sstatus' = "idle" /\ completed_files' = {}
    /\ manifest' = NoManifest /\ files_to_send' = <<>> /\ idx' = 0
    /\ attempt' = 0 /\ all_ok' = TRUE /\ sent_count' = 0 /\ sent' = 0
    /\ sconn' = FALSE
    /\ rpc' = "accept" /\ rstatus' = "waiting" /\ expected_hashes' = <<>>
    /\ manifest_received' = FALSE /\ files_received' = 0
    /\ filename' = OtherName /\ remaining' = 0 /\ linebuf' = FALSE
    /\ rconn' = FALSE /\ rserver' = TRUE
    /\ link' = "none" /\ s2r' = <<>> /\ r2s' = <<>>
    /\ announced' = [u \in Units |-> 0]
    /\ doneCount' = 0 /\ loaded' = {} /\ replies' = {}
    /\ nonBad' = {} /\ failed' = {}
    /\ rdir' = <<>>
    /\ UNCHANGED <<configVars, stateFile, faults, okRead, confirmed, lastSaved,
                   everSaved, sortVars, pipeVars>>

Next ==
    \/ SStart \/ SConnect \/ SConnectFail \/ SBuildList \/ SLoop \/ SAttempt
    \/ SSendData \/ SRecvResp \/ SSaveOpen \/ SSaveWrite \/ SSendDone
    \/ SFinish \/ SCrash \/ SSocketError \/ AckDamaged
    \/ RAccept \/ RRecvLine \/ RRecvEof \/ RRecvData \/ RConnectionLost
    \/ RPayloadException \/ RInterrupt
    \/ NewRun

Spec == Init /\ [][Next]_vars


\* ------------------ one run over a connection that stays up
\* Neither process is killed or interrupted, the connection is established
\* and no read of the sender times out; acknowledgements may be damaged and
\* the receiver may hit an I/O error, up to MaxFaults times in all.  Both
\* processes keep running: a step of the sender that stays possible is
\* taken, and so is a step of the receiver.
SenderStep ==
    \/ SStart \/ SConnect \/ SBuildList \/ SLoop \/ SAttempt \/ SSendData
    \/ SRecvResp \/ SSaveOpen \/ SSaveWrite \/ SSendDone \/ SFinish

ReceiverStep ==
    \/ RAccept \/ RRecvLine \/ RRecvEof \/ RRecvData

NextLive ==
    \/ SStart \/ SConnect \/ SBuildList \/ SLoop \/ SAttempt \/ SSendData
    \/ SRecvResp \/ SSaveOpen \/ SSaveWrite \/ SSendDone \/ SFinish
    \/ AckDamaged
    \/ RAccept \/ RRecvLine \/ RRecvEof \/ RRecvData \/ RPayloadException

SpecLive ==
    /\ Init /\ [][NextLive]_vars
    /\ WF_vars(SenderStep) /\ WF_vars(ReceiverStep)


\* ------------------------- producer runs and settings between sender runs
\* split_compress_encrypt lines 106-109 and 155-156, run again in the
\* sender's directory before a sender run: the chunk files and the manifest
\* are overwritten under the same names; transfer_state.json is not touched
ProducerRerun ==
    /\ spc = "idle"
    /\ dir /= [u \in Units |-> RerunBytes(u)]
    /\ dir' = [u \in Units |-> RerunBytes(u)]
    /\ UNCHANGED <<max_retries, enable_resume, priority_enabled, senderVars,
                   stateFile, link, s2r, r2s, receiverVars, historyVars,
                   sortVars, pipeVars>>

\* config_loader: transfer.enable_resume is changed before a sender run
ConfigureResume ==
    /\ spc = "idle"
    /\ enable_resume' = ~enable_resume
    /\ UNCHANGED <<max_retries, priority_enabled, dir, senderVars,
                   stateFile, link, s2r, r2s, receiverVars, historyVars,
                   sortVars, pipeVars>>

NextRerun == Next \/ ProducerRerun \/ ConfigureResume

SpecRerun == Init /\ [][NextRerun]_vars


\* ------------------------------------- the unit list, for any manifest
\* The directory holds n chunk files and possibly manifest.json; the loaded
\* manifest is None (absent or unparseable file) or any manifest whose
\* chunk entries name the n chunks, each with a priority 1..4 or without
\* the key, and whose own priority is 1..4 or absent.
PriorityChoices == {NoPriority} \cup 1..4
DefaultChoices == {NoPriority, 1, 4}

SortManifests(n) ==
    {[valid |-> TRUE, priority |-> d,
      chunks |-> [i \in 1..n |->
                    [name |-> EChunk(i - 1),
                     hash |-> calculate_hash(GoodBytes(EChunk(i - 1))),
                     priority |-> ps[i]]]] :
        d \in DefaultChoices, ps \in [1..n -> PriorityChoices]}

SortDir(n, with_manifest) ==
    [u \in {EChunk(i) : i \in 0..(n - 1)}
           \cup (IF with_manifest THEN {MANIFEST_FILE} ELSE {}) |-> GoodBytes(u)]

InitSort ==
    /\ max_retries = 0 /\ enable_resume = FALSE /\ dir = <<>>
    /\ priority_enabled \in BOOLEAN
    /\ \E n \in 0..MaxSortChunks :
         \/ /\ sort_manifest \in SortManifests(n)
            /\ sort_dir = SortDir(n, TRUE)
         \/ /\ sort_manifest = NoManifest
            /\ sort_dir \in {SortDir(n, TRUE), SortDir(n, FALSE)}
    /\ sort_result = <<>> /\ sort_done = FALSE
    /\ SenderIdle
    /\ stateFile = NoStateFile
    /\ link = "none" /\ s2r = <<>> /\ r2s = <<>>
    /\ ReceiverWaiting /\ rdir = <<>>
    /\ faults = 0 /\ announced = [u \in Units |-> 0]
    /\ okRead = {} /\ confirmed = {} /\ doneCount = 0 /\ lastSaved = {} /\ everSaved = {}
    /\ loaded = {} /\ replies = {} /\ nonBad = {} /\ failed = {}
    /\ PipeIdle

\* main() lines 288-302
SortApply ==
    /\ ~sort_done
    /\ sort_result' = BuildFilesToSend(sort_dir, sort_manifest, priority_enabled)
    /\ sort_done' = TRUE
    /\ UNCHANGED <<configVars, senderVars, stateFile, link, s2r, r2s,
                   receiverVars, historyVars, sort_dir, sort_manifest,
                   pipeVars>>

NextSort == SortApply

SpecSort == InitSort /\ [][NextSort]_vars

\* ------------------------- the unit list for chunks of one priority
\* The directory is what one producer run leaves: n chunk files and the
\* manifest, every chunk entry carrying the priority of the run (lines
\* 116-124 of the producer); the manifest may also be absent or unreadable.
InitIndex ==
    /\ max_retries = 0 /\ enable_resume = FALSE /\ dir = <<>>
    /\ priority_enabled \in BOOLEAN
    /\ \E n \in 0..MaxIndexChunks :
         \/ /\ \E p \in 1..4 : sort_manifest = ProducedManifest(n, p)
            /\ sort_dir = SortDir(n, TRUE)
         \/ /\ sort_manifest = NoManifest
            /\ sort_dir \in {SortDir(n, TRUE), SortDir(n, FALSE)}
    /\ sort_result = <<>> /\ sort_done = FALSE
    /\ SenderIdle
    /\ stateFile = NoStateFile
    /\ link = "none" /\ s2r = <<>> /\ r2s = <<>>
    /\ ReceiverWaiting /\ rdir = <<>>
    /\ faults = 0 /\ announced = [u \in Units |-> 0]
    /\ okRead = {} /\ confirmed = {} /\ doneCount = 0 /\ lastSaved = {} /\ everSaved = {}
    /\ loaded = {} /\ replies = {} /\ nonBad = {} /\ failed = {}
    /\ PipeIdle

SpecIndex == InitIndex /\ [][NextSort]_vars


\* --------------------------- producer, verification pass and reassembly
\* Bytes are small integers.  A file is a sequence of bytes over ByteValues;
\* compressed and encrypted data use the values below ByteModulus.
ByteValues == {0, 1}
ByteModulus == MaxChunkSize + 2
Keys == {1, 2}                        \* the content of the key file
NoKey == 0                            \* there is no key file
IVs == {0, 1}                         \* the fresh IV of one Fernet token

Files == UNION {[1..n -> ByteValues] : n \in 0..MaxFileLen}

RECURSIVE SumBytes(_)
SumBytes(x) == IF x = <<>> THEN 0 ELSE Head(x) + SumBytes(Tail(x))

\* the length of the run of equal bytes that x starts with
LeadingRun(x) ==
    CHOOSE n \in 1..Len(x) :
        /\ \A i \in 1..n : x[i] = x[1]
        /\ n = Len(x) \/ x[n + 1] /= x[1]

\* zlib.compress(raw_chunk): a lossless code (run lengths) of the bytes
RECURSIVE zlib_compress(_)
zlib_compress(x) ==
    IF x = <<>> THEN <<>>
    ELSE LET n == LeadingRun(x)
         IN <<n, x[1]>> \o zlib_compress(SubSeq(x, n + 1, Len(x)))

\* a decompression that hands the data back as it is
zlib_decompress_identity(z) == [ok |-> TRUE, data |-> z]

\* zlib.decompress(data): raises zlib.error on data that is no such code
RECURSIVE zlib_decompress(_)
zlib_decompress(z) ==
    IF z = <<>> THEN [ok |-> TRUE, data |-> <<>>]
    ELSE IF Len(z) < 2 \/ z[1] < 1 THEN [ok |-> FALSE, data |-> <<>>]
    ELSE LET rest == zlib_decompress(SubSeq(z, 3, Len(z)))
         IN [ok |-> rest.ok,
             data |-> [i \in 1..z[1] |-> z[2]] \o rest.data]

\* the HMAC of a Fernet token
FernetMac(k, iv, ct) == (k + iv + SumBytes(ct)) % ByteModulus

\* fernet.encrypt(data): IV, ciphertext, HMAC
fernet_encrypt(k, iv, data) ==
    LET ct == [i \in 1..Len(data) |-> (data[i] + k + iv) % ByteModulus]
    IN <<iv>> \o ct \o <<FernetMac(k, iv, ct)>>

\* fernet.decrypt(token): raises InvalidToken unless the HMAC verifies
fernet_decrypt(k, token) ==
    IF Len(token) < 2 THEN [ok |-> FALSE, data |-> <<>>]
    ELSE LET iv == token[1]
             ct == SubSeq(token, 2, Len(token) - 1)
         IN IF token[Len(token)] /= FernetMac(k, iv, ct)
            THEN [ok |-> FALSE, data |-> <<>>]
            ELSE [ok |-> TRUE,
                  data |-> [i \in 1..Len(ct) |->
                              (ct[i] + 2 * ByteModulus - k - iv) % ByteModulus]]

\* a producer that hashes the chunk as it is before encryption
HashedBytesCompressed(raw_chunk, compressed_chunk, encrypted_chunk) ==
    compressed_chunk

\* split_compress_encrypt line 112: calculate_hash(encrypted_chunk)
HashedBytes(raw_chunk, compressed_chunk, encrypted_chunk) == encrypted_chunk

\* the producer is given a file, a chunk size, the two flags and the key
InitPipe ==
    /\ max_retries = 0 /\ enable_resume = FALSE /\ dir = <<>>
    /\ priority_enabled = TRUE
    /\ SenderIdle
    /\ stateFile = NoStateFile
    /\ link = "none" /\ s2r = <<>> /\ r2s = <<>>
    /\ ReceiverWaiting /\ rdir = <<>>
    /\ faults = 0 /\ announced = [u \in Units |-> 0]
    /\ okRead = {} /\ confirmed = {} /\ doneCount = 0 /\ lastSaved = {} /\ everSaved = {}
    /\ loaded = {} /\ replies = {} /\ nonBad = {} /\ failed = {}
    /\ SortIdle
    /\ ppc = "produce"
    /\ source_file \in Files
    /\ chunk_size \in 1..MaxChunkSize
    /\ compression_enabled \in BOOLEAN /\ encryption_enabled \in BOOLEAN
    /\ key \in Keys
    /\ read_pos = 0 /\ original_hasher = <<>> /\ chunks_meta = <<>>
    /\ chunk_store = <<>> /\ pipe_manifest = NoPipeManifest
    /\ verify_ok = FALSE /\ verify_status = <<>>
    /\ outfile = <<>> /\ outfile_exists = FALSE /\ final_check = "none"
    /\ edits = 0

\* a read that ignores the chunk size and returns the rest of the file
RawChunkAtRest(pos) ==
    SubSeq(source_file, pos + 1, Len(source_file))

\* f.read(chunk_size) at the current position of the source file
RawChunkAt(pos) ==
    SubSeq(source_file, pos + 1,
           IF pos + chunk_size < Len(source_file) THEN pos + chunk_size
           ELSE Len(source_file))

\* a producer that rewrites the manifest after every chunk
ProduceChunkManifestFirst ==
    /\ ppc = "produce"
    /\ RawChunkAt(read_pos) /= <<>>
    /\ LET raw_chunk == RawChunkAt(read_pos)
           name == EChunk(Len(chunks_meta))
           meta == Append(chunks_meta,
                          [index |-> Len(chunks_meta), name |-> name,
                           size |-> Len(raw_chunk),
                           hash |-> calculate_hash(raw_chunk)])
       IN /\ read_pos' = read_pos + Len(raw_chunk)
          /\ original_hasher' = original_hasher \o raw_chunk
          /\ chunk_store' = [n \in DOMAIN chunk_store \cup {name} |->
                               IF n = name THEN raw_chunk ELSE chunk_store[n]]
          /\ chunks_meta' = meta
          /\ pipe_manifest' =
               [written |-> TRUE, original_size |-> read_pos + Len(raw_chunk),
                original_hash |-> calculate_hash(original_hasher \o raw_chunk),
                chunk_size |-> chunk_size,
                compression_enabled |-> FALSE,
                encryption_enabled |-> FALSE,
                chunks |-> meta]
    /\ UNCHANGED <<ppc, source_file, chunk_size, compression_enabled,
                   encryption_enabled, key, verify_ok, verify_status, outfile,
                   outfile_exists, final_check, edits>>
    /\ UNCHANGED <<configVars, senderVars, stateFile, link, s2r, r2s,
                   receiverVars, historyVars, sortVars>>

\* split_compress_encrypt lines 83-134: one pass of the loop for a chunk
ProduceChunk ==
    /\ ppc = "produce"
    /\ RawChunkAt(read_pos) /= <<>>
    /\ \E iv \in IVs :
         LET raw_chunk == RawChunkAt(read_pos)
             compressed_chunk == IF compression_enabled
                                 THEN zlib_compress(raw_chunk) ELSE raw_chunk
             encrypted_chunk == IF encryption_enabled
                                THEN fernet_encrypt(key, iv, compressed_chunk)
                                ELSE compressed_chunk
             chunk_id == Len(chunks_meta)
             name == EChunk(chunk_id)
         IN /\ read_pos' = read_pos + Len(raw_chunk)
            /\ original_hasher' = original_hasher \o raw_chunk
            /\ chunk_store' = [n \in DOMAIN chunk_store \cup {name} |->
                                 IF n = name THEN encrypted_chunk
                                 ELSE chunk_store[n]]
            /\ chunks_meta' =
                 Append(chunks_meta,
                        [index |-> chunk_id, name |-> name,
                         size |-> Len(encrypted_chunk),
                         hash |-> calculate_hash(
                                    HashedBytes(raw_chunk, compressed_chunk,
                                                encrypted_chunk))])
    /\ UNCHANGED <<ppc, source_file, chunk_size, compression_enabled,
                   encryption_enabled, key, pipe_manifest, verify_ok,
                   verify_status, outfile, outfile_exists, final_check, edits>>
    /\ UNCHANGED <<configVars, senderVars, stateFile, link, s2r, r2s,
                   receiverVars, historyVars, sortVars>>

\* split_compress_encrypt lines 86-87 and 136-161: end of file, the
\* manifest is written
ProduceManifest ==
    /\ ppc = "produce"
    /\ RawChunkAt(read_pos) = <<>>
    /\ pipe_manifest' =
         [written |-> TRUE, original_size |-> read_pos,
          original_hash |-> calculate_hash(original_hasher),
          chunk_size |-> chunk_size,
          compression_enabled |-> compression_enabled,
          encryption_enabled |-> encryption_enabled,
          chunks |-> chunks_meta]
    /\ ppc' = "verify"
    /\ UNCHANGED <<source_file, chunk_size, compression_enabled,
                   encryption_enabled, key, read_pos, original_hasher,
                   chunks_meta, chunk_store, verify_ok, verify_status, outfile,
                   outfile_exists, final_check, edits>>
    /\ UNCHANGED <<configVars, senderVars, stateFile, link, s2r, r2s,
                   receiverVars, historyVars, sortVars>>

\* a verification pass that lets a chunk with a wrong hash through
chunk_status_lenient(ch, store) ==
    IF ch.name \notin DOMAIN store THEN "missing" ELSE "ok"

\* verify_chunks lines 116-141: the status given to one descriptor
chunk_status(ch, store) ==
    IF ch.name \notin DOMAIN store THEN "missing"
    ELSE IF calculate_hash(store[ch.name]) = ch.hash THEN "ok"
    ELSE "bad"

\* verify_chunks: the status dict (a later descriptor of the same name
\* overwrites an earlier one)
status_of(m, store) ==
    [n \in {m.chunks[i].name : i \in 1..Len(m.chunks)} |->
        LET i == CHOOSE j \in 1..Len(m.chunks) :
                    /\ m.chunks[j].name = n
                    /\ \A k \in (j + 1)..Len(m.chunks) : m.chunks[k].name /= n
        IN chunk_status(m.chunks[i], store)]

\* verify_chunks: all_ok, false as soon as one descriptor is not ok
verify_chunks(m, store) ==
    \A i \in 1..Len(m.chunks) : chunk_status(m.chunks[i], store) = "ok"

\* __main__ lines 299-347: the verification pass; reassembly starts only
\* when it passed, otherwise the program exits
VerifyChunks ==
    /\ ppc = "verify"
    /\ verify_ok' = verify_chunks(pipe_manifest, chunk_store)
    /\ verify_status' = status_of(pipe_manifest, chunk_store)
    /\ ppc' = IF verify_chunks(pipe_manifest, chunk_store) THEN "reassemble"
              ELSE "exit"
    /\ UNCHANGED <<source_file, chunk_size, compression_enabled,
                   encryption_enabled, key, read_pos, original_hasher,
                   chunks_meta, chunk_store, pipe_manifest, outfile,
                   outfile_exists, final_check, edits>>
    /\ UNCHANGED <<configVars, senderVars, stateFile, link, s2r, r2s,
                   receiverVars, historyVars, sortVars>>

\* a reassembly that takes the descriptors in the order of the manifest's list
SortedAsListed(chunks) == chunks

\* sorted(manifest.get("chunks", []), key=lambda c: c["index"])
RECURSIVE SortedByIndex(_)
SortedByIndex(chunks) ==
    IF chunks = <<>> THEN <<>>
    ELSE LET i == CHOOSE j \in 1..Len(chunks) :
                    /\ \A k \in 1..Len(chunks) : chunks[j].index <= chunks[k].index
                    /\ \A k \in 1..(j - 1) : chunks[k].index /= chunks[j].index
         IN <<chunks[i]>> \o
            SortedByIndex(SubSeq(chunks, 1, i - 1)
                          \o SubSeq(chunks, i + 1, Len(chunks)))

\* reassemble lines 206-229: the chunks in turn are read, decrypted when the
\* manifest says encryption was enabled, decompressed when it says
\* compression was enabled, and written; an exception stops the loop with
\* what has been written so far
RECURSIVE WriteChunks(_, _, _, _)
WriteChunks(chunks, m, store, written) ==
    IF chunks = <<>> THEN [ok |-> TRUE, data |-> written]
    ELSE LET data == store[Head(chunks).name]
             decrypted == IF m.encryption_enabled THEN fernet_decrypt(key, data)
                          ELSE [ok |-> TRUE, data |-> data]
             decompressed == IF ~decrypted.ok THEN decrypted
                             ELSE IF m.compression_enabled
                             THEN zlib_decompress(decrypted.data)
                             ELSE decrypted
         IN IF ~decompressed.ok THEN [ok |-> FALSE, data |-> written]
            ELSE WriteChunks(Tail(chunks), m, store, written \o decompressed.data)

\* a final check that reports success whatever the hashes are
FinalVerificationAlwaysOk(final_hash, orig_hash) == "match"

\* reassemble lines 243-271: the final check; a manifest without
\* original_hash gets a warning instead of a verdict
FinalVerification(final_hash, orig_hash) ==
    IF orig_hash = <<>> THEN "none"
    ELSE IF final_hash = orig_hash THEN "match" ELSE "mismatch"

\* reassemble(): the output file is opened for writing, the chunks are
\* written, and the output is checked against original_hash
Reassemble ==
    /\ ppc = "reassemble"
    /\ LET chunks == SortedByIndex(pipe_manifest.chunks)
           out == WriteChunks(chunks, pipe_manifest, chunk_store, <<>>)
       IN IF key = NoKey
          THEN \* lines 189-190: load_key() raises before the output is opened
               /\ ppc' = "raised"
               /\ UNCHANGED <<outfile, outfile_exists, final_check>>
          ELSE /\ outfile' = out.data
               /\ outfile_exists' = TRUE
               /\ IF ~out.ok
                  THEN ppc' = "raised" /\ final_check' = "none"
                  ELSE /\ ppc' = "done"
                       /\ final_check' =
                            FinalVerification(calculate_hash(out.data),
                                              pipe_manifest.original_hash)
    /\ UNCHANGED <<source_file, chunk_size, compression_enabled,
                   encryption_enabled, key, read_pos, original_hasher,
                   chunks_meta, chunk_store, pipe_manifest, verify_ok,
                   verify_status, edits>>
    /\ UNCHANGED <<configVars, senderVars, stateFile, link, s2r, r2s,
                   receiverVars, historyVars, sortVars>>

NextPipe == ProduceChunk \/ ProduceManifest \/ VerifyChunks \/ Reassemble

SpecPipe == InitPipe /\ [][NextPipe]_vars


\* ------------- the chunk directory between the producer and the reassembler
\* The producer may die in its loop, and the directory the reassembler is
\* pointed at may differ from what the producer left: a chunk file missing or
\* damaged, the manifest's list shortened or in another order, the local
\* configuration of the reassembling host different from the producer's.

\* what the producer and the reassembler leave alone in a change of the
\* directory
StoreFrame ==
    /\ UNCHANGED <<source_file, chunk_size, key, read_pos, original_hasher,
                   chunks_meta, verify_ok, verify_status, outfile,
                   outfile_exists, final_check>>
    /\ UNCHANGED <<configVars, senderVars, stateFile, link, s2r, r2s,
                   receiverVars, historyVars, sortVars>>

\* split_compress_encrypt lines 81-134: the process is killed, or a read,
\* a stage or a write raises, inside the loop
ProducerCrash ==
    /\ ppc = "produce"
    /\ ppc' = "crashed"
    /\ UNCHANGED <<chunk_store, pipe_manifest, compression_enabled,
                   encryption_enabled, edits>>
    /\ StoreFrame

\* verify_chunks lines 120-124: a chunk file of the manifest is not there
DeleteChunk ==
    /\ ppc = "verify" /\ edits < MaxEdits
    /\ \E n \in DOMAIN chunk_store :
         chunk_store' = [x \in DOMAIN chunk_store \ {n} |-> chunk_store[x]]
    /\ edits' = edits + 1
    /\ UNCHANGED <<ppc, pipe_manifest, compression_enabled, encryption_enabled>>
    /\ StoreFrame

\* verify_chunks lines 126-141: a chunk file does not hold the bytes the
\* producer wrote
DamageChunk ==
    /\ ppc = "verify" /\ edits < MaxEdits
    /\ \E n \in DOMAIN chunk_store :
         chunk_store' = [chunk_store EXCEPT ![n] = Append(@, 0)]
    /\ edits' = edits + 1
    /\ UNCHANGED <<ppc, pipe_manifest, compression_enabled, encryption_enabled>>
    /\ StoreFrame

\* load_manifest: the manifest read lists fewer chunks than were produced
DropDescriptor ==
    /\ ppc = "verify" /\ edits < MaxEdits
    /\ pipe_manifest.chunks /= <<>>
    /\ pipe_manifest' =
         [pipe_manifest EXCEPT
            !.chunks = SubSeq(@, 1, Len(@) - 1)]
    /\ edits' = edits + 1
    /\ UNCHANGED <<ppc, chunk_store, compression_enabled, encryption_enabled>>
    /\ StoreFrame

\* load_manifest: the manifest read lists the descriptors in another order
ReorderManifest ==
    /\ ppc = "verify" /\ edits < MaxEdits
    /\ Len(pipe_manifest.chunks) >= 2
    /\ pipe_manifest' =
         [pipe_manifest EXCEPT
            !.chunks = [i \in 1..Len(@) |-> @[Len(@) + 1 - i]]]
    /\ edits' = edits + 1
    /\ UNCHANGED <<ppc, chunk_store, compression_enabled, encryption_enabled>>
    /\ StoreFrame

\* config_loader: the reassembling host's settings differ from the producer's
Reconfigure ==
    /\ ppc = "verify" /\ edits < MaxEdits
    /\ \E c, e \in BOOLEAN :
         /\ <<c, e>> /= <<compression_enabled, encryption_enabled>>
         /\ compression_enabled' = c
         /\ encryption_enabled' = e
    /\ edits' = edits + 1
    /\ UNCHANGED <<ppc, chunk_store, pipe_manifest>>
    /\ StoreFrame

NextStore ==
    \/ ProduceChunk \/ ProduceManifest \/ ProducerCrash
    \/ DeleteChunk \/ DamageChunk \/ DropDescriptor \/ ReorderManifest
    \/ Reconfigure
    \/ VerifyChunks \/ Reassemble

SpecStore == InitPipe /\ [][NextStore]_vars


\* ------------------------------------------------------- the key file
\* The producer and the reassembler are started on a host that may have no
\* key file, and the key file may be gone from the reassembling host.
InitKey ==
    /\ max_retries = 0 /\ enable_resume = FALSE /\ dir = <<>>
    /\ priority_enabled = TRUE
    /\ SenderIdle
    /\ stateFile = NoStateFile
    /\ link = "none" /\ s2r = <<>> /\ r2s = <<>>
    /\ ReceiverWaiting /\ rdir = <<>>
    /\ faults = 0 /\ announced = [u \in Units |-> 0]
    /\ okRead = {} /\ confirmed = {} /\ doneCount = 0 /\ lastSaved = {}
    /\ everSaved = {}
    /\ loaded = {} /\ replies = {} /\ nonBad = {} /\ failed = {}
    /\ SortIdle
    /\ ppc = "load_key"
    /\ source_file \in Files
    /\ chunk_size \in 1..MaxChunkSize
    /\ compression_enabled \in BOOLEAN /\ encryption_enabled \in BOOLEAN
    /\ key \in Keys \cup {NoKey}
    /\ read_pos = 0 /\ original_hasher = <<>> /\ chunks_meta = <<>>
    /\ chunk_store = <<>> /\ pipe_manifest = NoPipeManifest
    /\ verify_ok = FALSE /\ verify_status = <<>>
    /\ outfile = <<>> /\ outfile_exists = FALSE /\ final_check = "none"
    /\ edits = 0

\* split_compress_encrypt lines 70-71 and load_key lines 22-33: the key file
\* is read before the loop, whatever config.encryption_enabled says
ProducerLoadKey ==
    /\ ppc = "load_key"
    /\ ppc' = IF key = NoKey THEN "failed" ELSE "produce"
    /\ UNCHANGED <<chunk_store, pipe_manifest, compression_enabled,
                   encryption_enabled, edits>>
    /\ StoreFrame

\* the key file is not on the host where the chunks are reassembled
KeyFileMissing ==
    /\ ppc = "verify" /\ key /= NoKey
    /\ key' = NoKey
    /\ UNCHANGED <<ppc, source_file, chunk_size, compression_enabled,
                   encryption_enabled, read_pos, original_hasher, chunks_meta,
                   chunk_store, pipe_manifest, verify_ok, verify_status,
                   outfile, outfile_exists, final_check, edits>>
    /\ UNCHANGED <<configVars, senderVars, stateFile, link, s2r, r2s,
                   receiverVars, historyVars, sortVars>>

NextKey ==
    \/ ProducerLoadKey \/ ProduceChunk \/ ProduceManifest \/ ProducerCrash
    \/ KeyFileMissing \/ VerifyChunks \/ Reassemble

SpecKey == InitKey /\ [][NextKey]_vars


\* ======================================================================
\* Claims
\* ======================================================================

\* the sender has gone through its whole unit list and returned from main()
SenderFinished == spc = "returned" /\ link /= "none" /\ files_to_send /= <<>>

\* C1: with resume enabled, a unit that was in completed_files when the run
\* loaded TransferState is never announced in that run, and it stays in the
\* unit list.
C1_ResumeNeverResends ==
    \A u \in loaded :
        /\ announced[u] = 0
        /\ files_to_send /= <<>> => u \in Range(files_to_send)

\* C1 witness: a finished run that loaded a completed unit, kept it in its
\* list, and announced another unit.
C1_Witness ==
    /\ SenderFinished /\ enable_resume
    /\ \E u \in loaded, v \in Units :
         /\ u \in Range(files_to_send) /\ announced[u] = 0
         /\ v \notin loaded /\ announced[v] > 0

\* C2: every unit in the persisted completed_files (and in the set the
\* sender holds in memory) had an acknowledgement read as OK, in this run or
\* an earlier one.
C2_CompletedOnlyOnOk ==
    /\ load_state(stateFile) \subseteq okRead
    /\ completed_files \subseteq okRead

\* C2 witness: a finished run with a persisted unit and with a unit whose
\* acknowledgements were all BAD, damaged or missing, which is not persisted.
C2_Witness ==
    /\ SenderFinished
    /\ load_state(stateFile) /= {}
    /\ \E u \in Units :
         announced[u] > 0 /\ u \notin okRead /\ u \notin load_state(stateFile)

\* C3: a damaged chunk that was transmitted and answered BAD every time is
\* retried at most max_retries times and then given up; the sender goes on
\* through the rest of the list, writes DONE, ends in completed_with_errors,
\* and the unit is in completed_files neither in memory nor on disk.
C3_WrongHashScenario ==
    \A u \in Chunks :
        (/\ SenderFinished
         /\ u \in DOMAIN dir /\ dir[u] = BadBytes(u)
         /\ announced[u] > 0 /\ u \notin nonBad) =>
            /\ announced[u] - 1 <= max_retries
            /\ u \in failed
            /\ idx = Len(files_to_send) + 1
            /\ doneCount = 1
            /\ sstatus = "completed_with_errors"
            /\ u \notin completed_files
            /\ u \notin load_state(stateFile)

\* C3 witness: the damaged chunk was sent twice, answered BAD twice, given
\* up, and a later unit of the list was then sent and accepted.
C3_Witness ==
    /\ SenderFinished /\ sstatus = "completed_with_errors"
    /\ \E u \in Chunks, i, j \in 1..Len(files_to_send) :
         /\ dir[u] = BadBytes(u) /\ announced[u] = 2 /\ u \notin nonBad
         /\ u \in failed
         /\ i < j /\ files_to_send[i] = u /\ files_to_send[j] \in okRead
         /\ announced[files_to_send[j]] > 0

\* C4 as stated: a unit that is given up was announced 1 + max_retries
\* times (one transmission and max_retries resends).  Violated: the retry
\* loop runs max_retries attempts in all, none when max_retries is 0.
C4_RetryBound ==
    \A u \in failed : announced[u] = 1 + max_retries

\* at most one acknowledgement is in flight and at most one announcement is
\* unread by the receiver
OneUnitInFlight ==
    /\ Len(r2s) <= 1
    /\ Cardinality({i \in 1..Len(s2r) : s2r[i].t = "hdr"}) <= 1

\* C5 as stated: the receiver writes the one acknowledgement of a unit only
\* after it has consumed the whole announced payload, and the sender writes
\* the next announcement or DONE only after it has read that
\* acknowledgement (so nothing of the previous unit is still unread by the
\* receiver).  Violated: a timeout or I/O error in the middle of a payload
\* is answered with BAD while payload bytes are still to come.
C5_HalfDuplex ==
    /\ OneUnitInFlight
    /\ r2s /= <<>> => (remaining = 0 /\ s2r = <<>> /\ spc \in {"await", "crashed"})
    /\ spc \in {"loop", "attempt", "send_done"} => (s2r = <<>> /\ r2s = <<>>)

\* C6: every reply to a fully received unit that is a chunk of the manifest
\* received in the session is OK exactly when the stored bytes hash to the
\* descriptor's hash, and BAD otherwise.
C6_PerUnitValidation ==
    \A r \in replies :
        r.known => /\ r.token \in {"OK", "BAD"}
                   /\ r.token = "OK" <=> r.match

\* C6 witness: in one session a chunk of the manifest was answered BAD
\* (hash mismatch) and another one OK (hash match).
C6_Witness ==
    \E r1, r2 \in replies :
        /\ r1.known /\ r1.token = "BAD" /\ ~r1.match
        /\ r2.known /\ r2.token = "OK" /\ r2.match

\* the priority number the manifest gives a chunk: its entry's priority,
\* else the manifest's priority, else the configured default
ClaimPriority(m, f) ==
    LET es == {i \in 1..Len(m.chunks) : m.chunks[i].name = f}
        fallback == IF m.priority = NoPriority THEN DEFAULT_PRIORITY
                    ELSE m.priority
    IN IF es = {} THEN fallback
       ELSE LET e == m.chunks[CHOOSE i \in es : \A j \in es : j <= i]
            IN IF e.priority = NoPriority THEN fallback ELSE e.priority

ManifestFirst(result) ==
    \A i \in 1..Len(result) : result[i] = MANIFEST_FILE => i = 1

\* ascending priority, and directory-listing order among equal priorities
InPriorityOrder(result, m) ==
    \A i, j \in 1..Len(result) :
        (i < j /\ IsEchunk(result[i]) /\ IsEchunk(result[j])) =>
            \/ ClaimPriority(m, result[i]) < ClaimPriority(m, result[j])
            \/ /\ ClaimPriority(m, result[i]) = ClaimPriority(m, result[j])
               /\ NameLess(result[i], result[j])

InListingOrder(result) ==
    \A i, j \in 1..Len(result) :
        (i < j /\ IsEchunk(result[i]) /\ IsEchunk(result[j])) =>
            NameLess(result[i], result[j])

\* C7 as stated: whenever a manifest is loaded, the manifest unit is first
\* and the chunks follow in ascending priority number, stable among equal
\* priorities.  Violated: with priority.enabled false the list is not sorted.
C7_PriorityOrderAlways ==
    (sort_done /\ sort_manifest.valid) =>
        /\ ManifestFirst(sort_result)
        /\ InPriorityOrder(sort_result, sort_manifest)

\* C7 amended: the manifest unit, when present, is always first; the chunks
\* follow in ascending priority number, stable among equal priorities, when
\* the priority system is enabled and the manifest loads, and in
\* directory-listing order otherwise.
C7_PriorityOrder ==
    sort_done =>
        /\ ManifestFirst(sort_result)
        /\ (MANIFEST_FILE \in DOMAIN sort_dir) =>
              (sort_result /= <<>> /\ sort_result[1] = MANIFEST_FILE)
        /\ IF priority_enabled /\ sort_manifest.valid
           THEN InPriorityOrder(sort_result, sort_manifest)
           ELSE InListingOrder(sort_result)

\* C7 witness: priorities [3,1,4,1,2] are sent in the order 1,3,4,0,2
C7_Witness ==
    /\ sort_done /\ priority_enabled /\ sort_manifest.valid
    /\ Len(sort_manifest.chunks) = 5
    /\ [i \in 1..5 |-> sort_manifest.chunks[i].priority] = <<3, 1, 4, 1, 2>>
    /\ sort_result = <<MANIFEST_FILE, EChunk(1), EChunk(3), EChunk(4),
                       EChunk(0), EChunk(2)>>


\* C8 as stated: with resume enabled, whenever the sender is anywhere but
\* inside save_state, every unit it has recorded as acknowledged is on disk
\* (so the record is written before the next announcement or DONE), and a
\* unit that was once written is loaded by a sender restarted at any later
\* point.  Violated: the next save_state truncates the file before it
\* rewrites it.
C8_PersistBeforeNext ==
    enable_resume =>
        /\ spc \notin {"save_open", "save_write"} =>
              completed_files \subseteq load_state(stateFile)
        /\ everSaved \subseteq load_state(stateFile)

\* C9 as stated: what a run loads from TransferState is exactly the set of
\* the last save_state that completed.  Violated: a sender killed inside
\* save_state leaves a truncated file, which loads as the empty set.
C9_CrashConsistency ==
    (enable_resume /\ spc = "connecting") => completed_files = lastSaved

\* C10 as stated: every run that connected and came to its end has written
\* DONE, closed, and published completed exactly when no unit was given up.
\* Violated: with nothing to send the sender publishes error and closes
\* without DONE.
C10_SenderCompletionAlways ==
    (spc = "returned" /\ link /= "none") =>
        /\ doneCount = 1 /\ ~sconn
        /\ sstatus = IF failed = {} THEN "completed" ELSE "completed_with_errors"

\* C10 amended: for a non-empty unit list, once every unit has been skipped,
\* acknowledged OK or given up, the sender writes DONE once and closes, and
\* the final state is completed if and only if no unit was given up
\* (skipped units count as succeeded), completed_with_errors otherwise;
\* DONE is never written before the list is exhausted; with an empty unit
\* list the sender publishes error and closes without DONE.
C10_SenderCompletion ==
    /\ SenderFinished =>
          /\ idx = Len(files_to_send) + 1
          /\ \A i \in 1..Len(files_to_send) :
                files_to_send[i] \in loaded \cup okRead \cup failed
          /\ doneCount = 1 /\ ~sconn
          /\ sstatus = "completed" <=> failed = {}
          /\ sstatus = "completed_with_errors" <=> failed /= {}
    /\ (doneCount > 0 /\ spc /= "crashed") =>
          (doneCount = 1 /\ idx = Len(files_to_send) + 1)
    /\ (spc = "returned" /\ link /= "none" /\ files_to_send = <<>>) =>
          (doneCount = 0 /\ ~sconn /\ sstatus = "error")

\* C10 witness: a finished run that skipped a unit, sent another, gave up
\* none, wrote DONE and published completed.
C10_Witness ==
    /\ SenderFinished /\ sstatus = "completed" /\ doneCount = 1
    /\ \E u \in loaded, v \in Units :
         /\ u \in Range(files_to_send)
         /\ v \in Range(files_to_send) /\ announced[v] > 0

\* C11: a connection attempt that fails takes the sender from connecting
\* straight to error; nothing has been announced or written to the wire,
\* and neither loading the resume record nor the failure changes
\* transfer_state.json.
C11_ConnectFailure ==
    /\ [](spc = "connecting" =>
            /\ sstatus = "connecting" /\ s2r = <<>>
            /\ \A u \in Units : announced[u] = 0)
    /\ [][(spc = "connecting" /\ spc' = "returned") =>
            /\ sstatus' = "error"
            /\ stateFile' = stateFile
            /\ announced' = announced /\ s2r' = s2r /\ link' = link]_vars
    /\ [][(spc = "idle" /\ spc' = "connecting") => stateFile' = stateFile]_vars

\* C11 witness: a run that found a resume record written by an earlier run
\* failed to connect; the record is still there.
C11_Witness ==
    /\ spc = "returned" /\ link = "none" /\ sstatus = "error"
    /\ stateFile.kind = "json" /\ stateFile.completed_files /= <<>>
    /\ loaded = load_state(stateFile)

\* C12 as stated: a line that is neither DONE nor name|size (here: DONE
\* read behind leftover payload bytes, which has no "|") is answered with
\* BAD and the receiver goes on reading.  Violated: the line is dropped
\* without any reply.
C12_MalformedAnnouncement ==
    [][(rpc = "line" /\ s2r /= <<>> /\ s2r' = Tail(s2r)
          /\ Head(s2r).t = "done" /\ linebuf) =>
            (r2s' = Append(r2s, "BAD") /\ rpc' = "line")]_vars

\* C13: when the connection yields no bytes before the announced payload is
\* complete (the sender's socket is closed, nothing is left to read, and the
\* operator does not interrupt), the receiver publishes error, writes no
\* acknowledgement, closes both sockets and ends the session with the unit's
\* file incomplete; the unit is not in the sender's completed_files, in
\* memory or on disk.
C13_ConnectionDropMidPayload ==
    /\ [][(rpc = "payload" /\ remaining > 0 /\ rpc' = "closed"
            /\ s2r = <<>> /\ ~sconn /\ faults' = faults) =>
            /\ rstatus' = "error" /\ ~rconn' /\ ~rserver'
            /\ r2s' = r2s
            /\ rdir' = rdir /\ remaining' = remaining]_vars
    /\ []((rpc = "closed" /\ rstatus = "error" /\ filename \in Units) =>
            /\ filename \notin completed_files
            /\ filename \notin load_state(stateFile))

\* C13 witness: the sender died after announcing a chunk; the receiver, in
\* the middle of that chunk's payload, has ended the session in error, and
\* an earlier unit of the run is on disk as completed.
C13_Witness ==
    /\ rpc = "closed" /\ rstatus = "error" /\ ~rconn
    /\ filename \in Chunks /\ remaining > 0 /\ r2s = <<>>
    /\ announced[filename] > 0
    /\ load_state(stateFile) /= {}

\* C14 as stated: when the receiver stops reading a payload that is not yet
\* complete, for a timeout or any other exception, the session is over: it
\* publishes error and closes, and writes no acknowledgement.  Violated:
\* the except branch writes BAD and goes back to reading announcements.
C14_ReceiverExceptionFatal ==
    [][(rpc = "payload" /\ remaining > 0 /\ rpc' /= "payload" /\ s2r' = s2r) =>
            (rpc' = "closed" /\ rstatus' = "error" /\ r2s' = r2s)]_vars

\* C15 as stated: a timeout or I/O error while a unit is transmitted or its
\* acknowledgement awaited does not end the sender; whenever the sender
\* has ended, its published state is a final one.  Violated: the exception
\* is not caught, the process ends and the state stays at sending.
C15_SenderTimeoutUnitScoped ==
    spc = "raised" => sstatus \in {"completed_with_errors", "error"}

\* C16 as stated: a manifest unit whose stored bytes do not parse is not
\* answered OK and ends the session in error; one that parses is answered
\* OK.  Violated: the manifest unit is answered OK whatever it holds.
C16_MalformedManifestFatal ==
    \A r \in replies :
        r.name = MANIFEST_FILE =>
            IF r.parses THEN r.token = "OK"
            ELSE r.token /= "OK" /\ rpc = "closed" /\ rstatus = "error"

\* C17 as stated: a receiver session that has ended is in completed, error
\* or stopped.  Violated: when the sender closes at a unit boundary without
\* DONE the loop is left with the state still connected or receiving.
C17_ReceiverTerminalStates ==
    rpc = "closed" => rstatus \in {"completed", "error", "stopped"}

\* the states of the sender state machine and its moves
SenderStates ==
    {"idle", "connecting", "connected", "sending", "completed",
     "completed_with_errors", "error"}

SenderMoves ==
    {<<"idle", "connecting">>, <<"connecting", "connected">>,
     <<"connected", "sending">>, <<"sending", "completed">>,
     <<"sending", "completed_with_errors">>, <<"connecting", "error">>,
     <<"connected", "error">>, <<"sending", "error">>}

\* C18 as stated: within a run the published state is always one of the
\* seven states and changes only along the moves of the state machine; in
\* particular it never leaves error.  Violated: the sender publishes
\* preparing, and after a unit is given up (error) it publishes sending
\* again for the next unit.
C18_SenderStateMachine ==
    [][(spc' = "idle" => spc = "idle") =>
            /\ sstatus' \in SenderStates
            /\ sstatus' /= sstatus => <<sstatus, sstatus'>> \in SenderMoves]_vars

\* the raw bytes of chunk number i (from 0) of the source file
RawChunk(i) == RawChunkAt(i * chunk_size)

\* C19: the producer, the verification pass and the reassembly, run on an
\* untouched chunk set, never fail, and the output is the input file byte
\* for byte with the final check reporting a match.
C19_RoundTrip ==
    /\ ppc \notin {"exit", "raised"}
    /\ ppc = "reassemble" => verify_ok
    /\ ppc = "done" => (outfile = source_file /\ final_check = "match")

\* C19 witness: a file of three bytes in two chunks, the last one partial,
\* compressed and encrypted, has gone through and come out equal.
C19_Witness ==
    /\ ppc = "done" /\ final_check = "match"
    /\ compression_enabled /\ encryption_enabled
    /\ source_file = <<1, 1, 0>> /\ chunk_size = 2
    /\ Len(pipe_manifest.chunks) = 2 /\ outfile = <<1, 1, 0>>

\* C20: every descriptor's hash is the hash of the bytes in the chunk file
\* and its size their length; the hash is not that of the raw chunk when a
\* stage is enabled, nor that of the compressed chunk when encryption is.
C20_HashInvariant ==
    \A i \in 1..Len(chunks_meta) :
        LET ch == chunks_meta[i]
            raw == RawChunk(i - 1)
        IN /\ ch.name \in DOMAIN chunk_store
           /\ ch.hash = calculate_hash(chunk_store[ch.name])
           /\ ch.size = Len(chunk_store[ch.name])
           /\ (compression_enabled \/ encryption_enabled) =>
                 ch.hash /= calculate_hash(raw)
           /\ encryption_enabled =>
                 ch.hash /= calculate_hash(IF compression_enabled
                                           THEN zlib_compress(raw) ELSE raw)

\* C20 witness: two chunks were produced with compression and encryption
\* on, and the manifest is written.
C20_Witness ==
    /\ pipe_manifest.written /\ Len(pipe_manifest.chunks) = 2
    /\ compression_enabled /\ encryption_enabled
    /\ \A i \in 1..2 :
         chunk_store[pipe_manifest.chunks[i].name] /= RawChunk(i - 1)

\* C24: a receiver that has returned has closed the accepted connection and
\* the listening socket, whichever way the session ended; until then the
\* listening socket is open; an operator interrupt publishes stopped.
C24_CleanShutdown ==
    /\ [](rpc = "closed" => (~rconn /\ ~rserver))
    /\ [](rpc /= "closed" => rserver)
    /\ [][(rpc /= "closed" /\ rpc' = "closed" /\ faults' > faults) =>
            rstatus' = "stopped"]_vars

\* C24 witness: the operator interrupted the receiver in the middle of a
\* chunk's payload; the state is stopped and both sockets are closed.
C24_Witness ==
    /\ rpc = "closed" /\ rstatus = "stopped" /\ ~rconn /\ ~rserver
    /\ filename \in Chunks /\ remaining > 0 /\ link /= "none"

\* C25: a fully received unit other than the manifest that is not a chunk
\* of a manifest received in the session is answered OK, whatever it holds.
C25_LenientAcceptance ==
    \A r \in replies :
        (r.name /= MANIFEST_FILE /\ ~r.listed) => r.token = "OK"

\* C25 witness: in a resumed session without the manifest a damaged chunk
\* was stored and answered OK.
C25_Witness ==
    \E r \in replies :
        /\ r.name \in Chunks /\ ~r.listed /\ ~r.known /\ r.token = "OK"
        /\ r.stored_hash = calculate_hash(BadBytes(r.name))
        /\ ~manifest_received

\* C26: when the sender announced nothing and wrote DONE, a receiver that
\* read it (and was not interrupted) is in completed with files_received
\* 0, no file written and no acknowledgement sent.
C26_EmptyStream ==
    (/\ rpc = "closed" /\ rstatus /= "stopped"
     /\ doneCount = 1 /\ link = "open"
     /\ \A u \in Units : announced[u] = 0) =>
        /\ rstatus = "completed" /\ files_received = 0
        /\ rdir = <<>> /\ r2s = <<>> /\ replies = {}

\* C26 witness: a resumed run skipped every unit and wrote DONE; the
\* receiver read DONE as its first line.
C26_Witness ==
    /\ rpc = "closed" /\ rstatus = "completed" /\ files_received = 0
    /\ doneCount = 1 /\ loaded = Units /\ \A u \in Units : announced[u] = 0

\* the descriptor of chunk f in manifest m, if m lists f
ListedIn(m, f) == \E i \in 1..Len(m.chunks) : m.chunks[i].name = f

HashListedIn(m, f) ==
    m.chunks[CHOOSE i \in 1..Len(m.chunks) : m.chunks[i].name = f].hash

\* C29 as stated: every chunk that is listed in the transfer's manifest and
\* answered OK has stored bytes that hash to the descriptor's hash.
\* Violated: in a resumed run the manifest is skipped, the new receiver
\* session has received no manifest, and a damaged chunk is accepted.
C29_HashVerificationSurvivesResume ==
    \A r \in replies :
        (r.token = "OK" /\ ListedIn(load_manifest(dir), r.name)) =>
            r.stored_hash = HashListedIn(load_manifest(dir), r.name)

\* C30 as stated: the receiver never reads payload bytes as part of an
\* announcement line.  Violated: after BAD for an exception in the middle
\* of a payload the rest of the payload is read by recv_line.
C30_FramingSynchronised ==
    [][(rpc = "line" /\ s2r /= <<>> /\ s2r' = Tail(s2r)) =>
            Head(s2r).t /= "data"]_vars


\* ceil(S / C) for a chunk size C >= 1
CeilDiv(S, C) == (S + C - 1) \div C

\* C21: a manifest the producer emits for a file of size S with chunk size C
\* lists n = ceil(S/C) chunks whose indices are 0..n-1 in list order, every
\* chunk name is unique, original_size is S, and an empty source file gives
\* zero chunks and original_size 0.
C21_ManifestStructure ==
    pipe_manifest.written =>
        LET chunks == pipe_manifest.chunks
            S == Len(source_file)
        IN /\ Len(chunks) = CeilDiv(S, chunk_size)
           /\ \A i \in 1..Len(chunks) : chunks[i].index = i - 1
           /\ \A i, j \in 1..Len(chunks) :
                chunks[i].name = chunks[j].name => i = j
           /\ pipe_manifest.original_size = S
           /\ S = 0 => (chunks = <<>> /\ pipe_manifest.original_size = 0)

\* C21 witness: a manifest for a file whose size is not a multiple of the
\* chunk size, so that the last chunk is short.
C21_Witness ==
    /\ pipe_manifest.written
    /\ chunk_size = 2 /\ Len(source_file) = 3
    /\ Len(pipe_manifest.chunks) = 2
    /\ pipe_manifest.chunks[2].index = 1
    /\ pipe_manifest.original_size = 3

\* the verification pass has run
Verified == ppc \in {"reassemble", "done", "raised", "exit"}

\* C22: the verification pass gives every descriptor of the manifest exactly
\* one of missing, bad, ok (missing: no such file; ok: the file hashes to the
\* descriptor's hash; bad: otherwise); reassembly is started only if every
\* descriptor is ok; if one is missing or bad no output file is created or
\* written.
C22_ReassemblyGate ==
    LET chunks == pipe_manifest.chunks
        AllOk == \A i \in 1..Len(chunks) : verify_status[chunks[i].name] = "ok"
    IN /\ Verified =>
            /\ DOMAIN verify_status = {chunks[i].name : i \in 1..Len(chunks)}
            /\ \A i \in 1..Len(chunks) :
                 LET ch == chunks[i]
                     st == verify_status[ch.name]
                 IN /\ st \in {"missing", "bad", "ok"}
                    /\ st = "missing" <=> ch.name \notin DOMAIN chunk_store
                    /\ st = "ok" <=>
                         /\ ch.name \in DOMAIN chunk_store
                         /\ calculate_hash(chunk_store[ch.name]) = ch.hash
       /\ (ppc \in {"reassemble", "done", "raised"} \/ outfile_exists) =>
            (Verified /\ AllOk)
       /\ ppc = "exit" => (~outfile_exists /\ outfile = <<>>)

\* C22 witness: a manifest of three chunks of which one file is missing, one
\* is damaged and one is intact; the program has exited without an output.
C22_Witness ==
    /\ ppc = "exit" /\ ~outfile_exists
    /\ \E a, b, c \in DOMAIN verify_status :
         /\ verify_status[a] = "missing"
         /\ verify_status[b] = "bad"
         /\ verify_status[c] = "ok"

\* C23: after reassembly the report is a match exactly when the hash of the
\* output file equals the manifest's original_hash and a mismatch otherwise;
\* on a mismatch the output file stays where it was written, and the two
\* reports differ.
C23_FinalIntegrityReport ==
    ppc = "done" =>
        /\ outfile_exists
        /\ final_check \in {"match", "mismatch"}
        /\ final_check = "match" <=>
             calculate_hash(outfile) = pipe_manifest.original_hash
        /\ final_check = "mismatch" <=>
             calculate_hash(outfile) /= pipe_manifest.original_hash

\* C23 witness: every listed chunk verified, but the manifest lists fewer
\* chunks than the file has, so the output is a proper beginning of the file
\* and the report is a mismatch with the output left in place.
C23_Witness ==
    /\ ppc = "done" /\ final_check = "mismatch"
    /\ outfile_exists /\ outfile /= <<>> /\ outfile /= source_file
    /\ calculate_hash(outfile) /= pipe_manifest.original_hash

\* C27: the producer writes the manifest at most once, and only when the
\* whole file has been read and every chunk file is stored; once the
\* producer has ended normally the manifest is written; a producer that
\* died in its loop has written no manifest.
C27_ProducerWriteOrdering ==
    /\ [](ppc \in {"produce", "crashed"} => ~pipe_manifest.written)
    /\ []((ppc \notin {"produce", "crashed"} /\ edits = 0) =>
            (pipe_manifest.written /\ pipe_manifest.chunks = chunks_meta))
    /\ [][(pipe_manifest' /= pipe_manifest /\ edits' = edits) =>
            /\ ppc = "produce" /\ ~pipe_manifest.written
            /\ read_pos = Len(source_file)
            /\ Len(chunks_meta) = CeilDiv(Len(source_file), chunk_size)
            /\ \A i \in 1..Len(chunks_meta) :
                 chunks_meta[i].name \in DOMAIN chunk_store
            /\ pipe_manifest'.written
            /\ pipe_manifest'.chunks = chunks_meta]_vars

\* C27 witness: the producer died after storing one chunk of several; the
\* chunk file is there and no manifest is.
C27_Witness ==
    /\ ppc = "crashed" /\ ~pipe_manifest.written
    /\ Len(chunks_meta) = 1 /\ EChunk(0) \in DOMAIN chunk_store
    /\ read_pos < Len(source_file)

\* the raw chunks numbered by the set idx, joined in ascending order
RECURSIVE RawInOrder(_)
RawInOrder(numbers) ==
    IF numbers = {} THEN <<>>
    ELSE LET i == CHOOSE x \in numbers : \A y \in numbers : x <= y
         IN RawChunk(i) \o RawInOrder(numbers \ {i})

\* C28: the output is the listed chunks in ascending index order, whatever
\* the order of the manifest's list, each decrypted iff the manifest says
\* encrypted and then decompressed iff the manifest says compressed,
\* whatever the local configuration says; with every chunk listed the
\* output is the source file.
C28_ReassemblyOrder ==
    ppc = "done" =>
        LET chunks == pipe_manifest.chunks
            listed == {chunks[i].index : i \in 1..Len(chunks)}
        IN /\ outfile = RawInOrder(listed)
           /\ Len(chunks) = Len(chunks_meta) =>
                (outfile = source_file /\ final_check = "match")

\* C28 witness: the manifest lists chunk 1 before chunk 0, the chunks are
\* compressed and encrypted while the local configuration says neither, and
\* the output is the source file.
C28_Witness ==
    /\ ppc = "done" /\ Len(pipe_manifest.chunks) = 2
    /\ pipe_manifest.chunks[1].index = 1 /\ pipe_manifest.chunks[2].index = 0
    /\ pipe_manifest.compression_enabled /\ pipe_manifest.encryption_enabled
    /\ ~compression_enabled /\ ~encryption_enabled
    /\ source_file = <<1, 1, 0>> /\ outfile = <<1, 1, 0>>

\* C38: the unit list after sorting holds exactly the units of the list
\* before sorting (the manifest, when there, and every chunk file), each
\* once, whether priority is enabled or not and whether a manifest loaded.
C38_SortIsPermutation ==
    sort_done =>
        /\ Range(sort_result) = DOMAIN sort_dir
        /\ Len(sort_result) = Cardinality(DOMAIN sort_dir)
        /\ \A i, j \in 1..Len(sort_result) :
             sort_result[i] = sort_result[j] => i = j

\* C38 witness: five chunks and the manifest, sorted by priority into an
\* order that is not the listing order, all six still there.
C38_Witness ==
    /\ sort_done /\ priority_enabled /\ sort_manifest.valid
    /\ Len(sort_result) = 6
    /\ Range(sort_result) = {MANIFEST_FILE} \cup {EChunk(i) : i \in 0..4}
    /\ \E i \in 2..5 : sort_result[i] > sort_result[i + 1]

\* C35 as stated: when every chunk carries the same priority the chunks
\* are in the unit list in ascending chunk index order, for any number of
\* chunks.  Violated: the list is built from the sorted file names, and
\* "echunk_10.bin" sorts before "echunk_2.bin".
C35_IndexOrder ==
    sort_done =>
        \A i, j \in 1..Len(sort_result) :
            (i < j /\ IsEchunk(sort_result[i]) /\ IsEchunk(sort_result[j])) =>
                sort_result[i] < sort_result[j]

\* the sender is in its send loop or past it
InSendLoop ==
    spc \in {"loop", "attempt", "payload", "await", "save_open", "save_write",
             "send_done", "final"} \/ SenderFinished

\* the units the send loop is through with: those before the current one,
\* and the current one once its acknowledgement has been read as OK
ProcessedUnits ==
    {files_to_send[i] : i \in 1..(idx - 1)} \cup
    (IF spc \in {"save_open", "save_write"} THEN {CurrentFile} ELSE {})

\* C39: from the start of the send loop on, 0 <= sent_count <= total_files
\* and sent_count is the number of units the loop is through with that
\* were skipped or acknowledged OK; at the end of a run that went through
\* its list the final state is completed iff sent_count = total_files.
C39_SenderCounter ==
    /\ InSendLoop =>
         /\ 0 <= sent_count /\ sent_count <= Len(files_to_send)
         /\ sent_count =
              Cardinality({u \in ProcessedUnits :
                             \/ u \in loaded
                             \/ /\ announced[u] > 0 /\ u \in okRead
                                /\ u \notin failed})
    /\ SenderFinished =>
         (sstatus = "completed" <=> sent_count = Len(files_to_send))

\* C39 witness: a finished run of three units of which one was skipped, one
\* acknowledged OK and one given up: sent_count is 2 of 3.
C39_Witness ==
    /\ SenderFinished /\ sstatus = "completed_with_errors"
    /\ Len(files_to_send) = 3 /\ sent_count = 2
    /\ \E u, v, w \in Range(files_to_send) :
         /\ u \in loaded /\ announced[u] = 0
         /\ v \notin loaded /\ announced[v] > 0 /\ v \notin failed
         /\ w \in failed

\* C33 as stated: a run that went through its list has announced every
\* unit that was not completed before at least once, whatever max_retries
\* is; a unit is announced again only after an acknowledgement of its
\* previous transmission that was not OK.  Violated: with max_retries = 0
\* the retry loop has no pass, and no unit is announced at all.
C33_TransmissionBounds ==
    /\ [](SenderFinished =>
            \A u \in Range(files_to_send) \ loaded : announced[u] >= 1)
    /\ [][\A u \in Units :
            (announced'[u] > announced[u] /\ announced[u] > 0) =>
                /\ u = CurrentFile /\ attempt > 1
                /\ u \notin completed_files]_vars

\* C34 as stated: a run that connected writes DONE at most once, writes
\* nothing after it, and does not close its connection before it has
\* written DONE (a sender that is killed does not close anything itself).
\* Violated: with nothing to send main() closes without DONE, and an
\* uncaught socket error ends the process with the connection open.
C34_DoneDiscipline ==
    /\ [](doneCount <= 1)
    /\ [](SenderFinished => doneCount = 1)
    /\ [][(doneCount > 0 /\ doneCount' = doneCount) =>
            (Len(s2r') <= Len(s2r) /\ announced' = announced)]_vars
    /\ [][(sconn /\ ~sconn' /\ spc' /= "crashed") => doneCount = 1]_vars

\* C31 as stated: when a run ends in completed, every chunk of the manifest
\* now in the sender's directory was transmitted with the bytes its file
\* now holds and that transmission was acknowledged OK, in this run or an
\* earlier one; and a unit the run skipped had its present bytes confirmed
\* earlier.  Violated: units are skipped by name alone, so after the
\* producer has run again a run of the sender skips every unit and
\* publishes completed.
C31_EndToEndDelivery ==
    /\ (SenderFinished /\ sstatus = "completed") =>
         LET m == load_manifest(dir)
         IN \A i \in 1..Len(m.chunks) :
              /\ m.chunks[i].name \in DOMAIN dir
              /\ <<m.chunks[i].name, dir[m.chunks[i].name]>> \in confirmed
    /\ \A i \in 1..Len(files_to_send) :
         (i < idx /\ files_to_send[i] \in loaded) =>
             <<files_to_send[i], dir[files_to_send[i]]>> \in confirmed

\* C36 as stated: with resume disabled the sender does not load
\* transfer_state.json (nothing is taken for completed) and never writes it,
\* and a run that went through its list has transmitted every unit of it,
\* whatever the file holds.  Violated: with max_retries = 0 no unit is
\* transmitted.
C36_ResumeDisabledFrame ==
    /\ [](~enable_resume => (completed_files = {} /\ loaded = {}))
    /\ [][~enable_resume => stateFile' = stateFile]_vars
    /\ []((SenderFinished /\ ~enable_resume) =>
            \A u \in Range(files_to_send) : announced[u] >= 1)

\* C37 as stated: the producer fails for want of a key only when
\* encryption is enabled, the reassembly fails only when the manifest says
\* encrypted, and a producer that failed has written no manifest.
\* Violated: both programs read the key file before they look at the flag.
C37_KeyOnlyForEncryption ==
    /\ ppc = "failed" => encryption_enabled
    /\ ppc = "raised" => pipe_manifest.encryption_enabled
    /\ ppc \in {"failed", "crashed"} => ~pipe_manifest.written

====
